---- MODULE Spec2Model ----
(***************************************************************************)
(* Narrative motion synchronisation: the scroll bridge between the         *)
(* embedded document and the host (IframeScrollBridge.tsx) and the         *)
(* waypoint orchestrator (SceneOrchestrator.tsx), the path planner         *)
(* (pathFinder), the stage grid and overlay loop (OverlayMotion) and the   *)
(* canvas renderer (CanvasRenderer).                                       *)
(*                                                                         *)
(* Scroll fractions are percentages carried in tenths of a percent, so     *)
(* 299 stands for 29.9 and 1000 for 100.0.  Times are milliseconds.        *)
(***************************************************************************)
EXTENDS Integers, Sequences, FiniteSets, TLC

VARIABLES
    \* ---- SceneOrchestrator ----
    waypoints,        \* prop: the ordered ScrollWaypoint list
    scrollPercent,    \* prop: the scroll fraction last handed to the orchestrator
    activeWaypoint,   \* useState: <<>> (null) or <<ActiveWaypoint>>
    orchMounted,      \* the mount effect has run
    events,           \* calls made to onActiveSceneChange, in order
    feed,             \* history: the scroll fractions fed so far, in order
    \* ---- IframeScrollBridge ----
    guarded,          \* which of the file's two definitions of the component is built
    life,             \* "new", "mounted" or "unmounted"
    isActive,         \* prop
    onScrollChange,   \* prop: "fn1", "fn2" (callable) or "undefined"
    injectedRef,      \* useRef(false)
    lastUpdateRef,    \* useRef(0)
    loadListener,     \* handleLoad is registered on the iframe
    docReady,         \* contentDocument.readyState === 'complete'
    docAccessible,    \* the embedded document is same-origin-accessible
    docReporters,     \* reporter scripts installed in the current document
    pendingFrames,    \* reporters whose `ticking` flag is set (a frame is requested)
    docScrollY,       \* window.scrollY of the embedded document
    channel,          \* scroll reports posted to the host window, not yet dispatched
    now,              \* Date.now()
    delivered,        \* history: the times at which onScrollChange was called
    lastRun,          \* history: the last run of handleMessage: its message and outcome
    thrown,           \* an exception escaped a handler of the bridge
    lastAttempt,      \* history: outcome of the last injectScrollTracker call
    docLoadSeen,      \* history: the current document's load event fired while active
    \* ---- function calls (sendUpdate, pathFinder, Easing) ----
    args,             \* the arguments of the call under study
    ret,              \* what the call returned: <<>> before it ran
    \* ---- OverlayMotion and pathFinder's stage grid ----
    ovLife,           \* "new", "mounted" or "unmounted"
    ovActive,         \* prop isActive
    ovScene,          \* prop scene: 0 (null) or a scene
    windowSize,       \* <<window.innerWidth, window.innerHeight>>
    canvasSize,       \* <<canvas.width, canvas.height>>
    dom,              \* the elements of the document under the overlay
    scrollTop,        \* how far the page is scrolled
    gridCache,        \* useRef: the stage samples of the last rebuild
    stageGrid,        \* pathFinder.stageGrid
    requestRef,       \* an animation frame is requested and not cancelled
    listening,        \* the resize and scroll listeners are registered
    frameOutput,      \* what the last animate call painted
    justRebuilt,      \* history: the last step ran updateStageGrid
    burst,            \* history: rebuilds made by resize and scroll events since the page was last quiet
    \* ---- CanvasRenderer ----
    crBuild,          \* which build of the renderer runs
    crLife,           \* "new", "mounted" or "unmounted"
    crDoc,            \* prop frames: the document they belong to
    currentFrameIndex, \* prop
    animationFrameRef, \* an animation frame is requested and not cancelled
    crElapsed,        \* performance.now() - startTime at the last frame
    historyCache,     \* module-level: the trail of each entity id
    arrivals,         \* history: every position recorded for an entity id, in order
    sinceChange,      \* history: positions recorded since the last change of props
    crChanges,        \* how often the props changed
    \* ---- ImmersiveReader ----
    rdBuild,          \* which build of the reader runs
    activeScene,      \* useState: the scene handed to the renderer, 0 for null
    \* ---- two readers in one page ----
    mountOrder,       \* the mounted readers, in the order of their mounting
    instTicks,        \* per reader: frames its renderer painted
    instGridCache,    \* per reader: gridCache.current of its overlay
    instDrew,         \* history, per reader: the trail it drew last, and whose grid it snapped to
    trailBank,        \* module-level historyCache, each entry with the reader that pushed it
    sharedStageGrid,  \* pathFinder.stageGrid, with the reader that set it
    pageDom,          \* the elements of the page under the overlays
    \* ---- App and DocumentInput ----
    appBuild,         \* which build of App runs
    activeContent,    \* useState: <<>> (null) or <<ReaderState>>
    analyses,         \* the submissions whose background analysis has not settled
    submissions,      \* how many submissions were made
    \* ---- the animation-frame callbacks of one renderer ----
    loopKind,         \* the component: "OverlayMotion" or "CanvasRenderer"
    loopLife,         \* "new", "mounted" or "unmounted"
    loopGen,          \* which run of the effect is the current one
    loopRef,          \* requestRef.current / animationFrameRef.current: a request id, 0 before any
    loopPending,      \* the browser's list: callbacks requested, not yet run or cancelled
    loopRequests,     \* how many requests were made: the last id handed out
    loopLastRan,      \* history: the effect run whose animate ran last, 0 before any
    \* ---- one call of pollJobCompletion ----
    pollBuild,        \* the source file: "fastapiClient" or "part_014"
    pollLife,         \* "new" or "called"
    maxAttempts,      \* the limit of this call, 0 before the call
    attempts,         \* let attempts
    pollInFlight,     \* status requests awaiting their response
    pollTimers,       \* timers set by setTimeout(poll, ...) that have not fired
    pollRequests,     \* history: how many status requests were issued
    pollSeen,         \* history: the responses, in order
    pollSettles       \* history: the calls of resolve and reject, in order

orchVars == <<waypoints, scrollPercent, activeWaypoint, orchMounted, events, feed>>

bridgeVars == <<guarded, life, isActive, onScrollChange, injectedRef, lastUpdateRef,
                loadListener, docReady, docAccessible, docReporters, pendingFrames,
                docScrollY, channel, now, delivered, lastRun, thrown, lastAttempt,
                docLoadSeen>>

callVars == <<args, ret>>

overlayVars == <<ovLife, ovActive, ovScene, windowSize, canvasSize, dom, scrollTop,
                 gridCache, stageGrid, requestRef, listening, frameOutput, justRebuilt,
                 burst>>

canvasVars == <<crBuild, crLife, crDoc, currentFrameIndex, animationFrameRef, crElapsed,
                historyCache, arrivals, sinceChange, crChanges>>

readerVars == <<rdBuild, activeScene>>

pairVars == <<mountOrder, instTicks, instGridCache, instDrew, trailBank, sharedStageGrid,
              pageDom>>

appVars == <<appBuild, activeContent, analyses, submissions>>

loopVars == <<loopKind, loopLife, loopGen, loopRef, loopPending, loopRequests, loopLastRan>>

pollVars == <<pollBuild, pollLife, maxAttempts, attempts, pollInFlight, pollTimers,
              pollRequests, pollSeen, pollSettles>>

vars == <<orchVars, bridgeVars, callVars, overlayVars, canvasVars, readerVars, pairVars, appVars, loopVars, pollVars>>

\* what the handlers of one component never touch
exceptOrch == <<bridgeVars, callVars, overlayVars, canvasVars, readerVars, pairVars, appVars, loopVars, pollVars>>
exceptBridge == <<orchVars, callVars, overlayVars, canvasVars, readerVars, pairVars, appVars, loopVars, pollVars>>
exceptCall == <<orchVars, bridgeVars, overlayVars, canvasVars, readerVars, pairVars, appVars, loopVars, pollVars>>
exceptOverlay == <<orchVars, bridgeVars, callVars, canvasVars, readerVars, pairVars, appVars, loopVars, pollVars>>
exceptCanvas == <<orchVars, bridgeVars, callVars, overlayVars, readerVars, pairVars, appVars, loopVars, pollVars>>
exceptPair == <<orchVars, bridgeVars, callVars, overlayVars, canvasVars, readerVars, appVars, loopVars, pollVars>>

(***************************************************************************)
(* Bounds and sample sets                                                  *)
(***************************************************************************)
MaxWaypoints == 2
MaxUpdates == 3
MaxReporters == 2
MaxChannel == 2
MaxElapsed == 50

Ids == {"w1", "w2"}
Starts == {0, 300}
Durations == {300, 700}
Percents == {0, 299, 300, 301, 1000}

\* a waypoint without its scene
WindowSet == [id : Ids, scrollPercent : Starts, duration : Durations]

\* every waypoint owns its scene object: the scene of the i-th waypoint is i,
\* and 0 stands for null
NoScene == 0
WithScenes(ws) ==
    [i \in 1..Len(ws) |->
        [id |-> ws[i].id, scrollPercent |-> ws[i].scrollPercent,
         duration |-> ws[i].duration, scene |-> i]]

RECURSIVE SeqsUpTo(_, _)
SeqsUpTo(S, n) ==
    IF n = 0 THEN {<<>>}
    ELSE LET shorter == SeqsUpTo(S, n - 1)
         IN shorter \cup {Append(s, x) : s \in {t \in shorter : Len(t) = n - 1}, x \in S}

(***************************************************************************)
(* SceneOrchestrator                                                       *)
(***************************************************************************)
\* the window taken half-open: percent < deactivationPercent
InWindowHalfOpen(waypoint, percent) ==
    /\ percent >= waypoint.scrollPercent
    /\ percent < waypoint.scrollPercent + waypoint.duration

InWindow(waypoint, percent) ==
    /\ percent >= waypoint.scrollPercent
    /\ percent <= waypoint.scrollPercent + waypoint.duration

\* the scan keeping the last match instead of returning at the first
RECURSIVE ScanWaypointsLast(_, _, _)
ScanWaypointsLast(ws, i, percent) ==
    IF i > Len(ws) THEN <<>>
    ELSE LET later == ScanWaypointsLast(ws, i + 1, percent)
         IN IF later # <<>> THEN later
            ELSE IF InWindow(ws[i], percent)
                 THEN << [waypoint |-> ws[i],
                          activationPercent |-> ws[i].scrollPercent,
                          deactivationPercent |-> ws[i].scrollPercent + ws[i].duration] >>
                 ELSE <<>>

RECURSIVE ScanWaypoints(_, _, _)
ScanWaypoints(ws, i, percent) ==
    IF i > Len(ws) THEN <<>>
    ELSE IF InWindow(ws[i], percent)
         THEN << [waypoint |-> ws[i],
                  activationPercent |-> ws[i].scrollPercent,
                  deactivationPercent |-> ws[i].scrollPercent + ws[i].duration] >>
         ELSE ScanWaypoints(ws, i + 1, percent)

findActiveWaypoint(ws, percent) == ScanWaypoints(ws, 1, percent)

\* newActiveWaypoint?.waypoint.id
WaypointId(a) == IF a = <<>> THEN "undefined" ELSE a[1].waypoint.id

\* the arguments of onActiveSceneChange
SceneEvent(a) ==
    IF a = <<>> THEN [scene |-> NoScene, id |-> "null"]
    ELSE [scene |-> a[1].waypoint.scene, id |-> a[1].waypoint.id]

\* the comparison made on the objects, which are fresh on every run
IdChangedByReference(newActive, active) == TRUE

IdChanged(newActive, active) == WaypointId(newActive) # WaypointId(active)

\* the effect without setActiveWaypoint
EffectRunNoSet(ws, percent, active) ==
    LET newActiveWaypoint == findActiveWaypoint(ws, percent)
    IN IF IdChanged(newActiveWaypoint, active)
       THEN [active |-> active, emitted |-> <<SceneEvent(newActiveWaypoint)>>]
       ELSE [active |-> active, emitted |-> <<>>]

\* one run of the effect: the state it sets and the events it emits
EffectRun(ws, percent, active) ==
    LET newActiveWaypoint == findActiveWaypoint(ws, percent)
    IN IF IdChanged(newActiveWaypoint, active)
       THEN [active |-> newActiveWaypoint, emitted |-> <<SceneEvent(newActiveWaypoint)>>]
       ELSE [active |-> active, emitted |-> <<>>]

\* the effect, and its re-run after setActiveWaypoint re-rendered the component
EffectSettle(ws, percent, active) ==
    LET first == EffectRun(ws, percent, active)
        again == IF first.active # active
                 THEN EffectRun(ws, percent, first.active)
                 ELSE [active |-> first.active, emitted |-> <<>>]
    IN [active |-> again.active, emitted |-> first.emitted \o again.emitted]

OrchAbsent ==
    /\ waypoints = <<>>
    /\ scrollPercent = 0
    /\ activeWaypoint = <<>>
    /\ orchMounted = FALSE
    /\ events = <<>>
    /\ feed = <<>>

InitOrch ==
    /\ waypoints \in {WithScenes(ws) : ws \in SeqsUpTo(WindowSet, MaxWaypoints)}
    /\ scrollPercent \in Percents
    /\ activeWaypoint = <<>>
    /\ orchMounted = FALSE
    /\ events = <<>>
    /\ feed = <<>>

OrchMount ==
    /\ ~orchMounted
    /\ LET r == EffectSettle(waypoints, scrollPercent, activeWaypoint)
       IN /\ activeWaypoint' = r.active
          /\ events' = events \o r.emitted
    /\ orchMounted' = TRUE
    /\ feed' = Append(feed, scrollPercent)
    /\ UNCHANGED <<waypoints, scrollPercent>>
    /\ UNCHANGED exceptOrch

OrchUpdate(p) ==
    /\ orchMounted
    /\ Len(feed) < MaxUpdates
    /\ scrollPercent' = p
    /\ LET r == IF p # scrollPercent
                THEN EffectSettle(waypoints, p, activeWaypoint)
                ELSE [active |-> activeWaypoint, emitted |-> <<>>]
       IN /\ activeWaypoint' = r.active
          /\ events' = events \o r.emitted
    /\ feed' = Append(feed, p)
    /\ UNCHANGED <<waypoints, orchMounted>>
    /\ UNCHANGED exceptOrch

NextOrch ==
    \/ OrchMount
    \/ \E p \in Percents : OrchUpdate(p)

(***************************************************************************)
(* Properties of the orchestrator                                          *)
(***************************************************************************)
\* the indices of the waypoints whose closed window contains percent
Containing(ws, percent) ==
    {i \in 1..Len(ws) : /\ ws[i].scrollPercent <= percent
                        /\ percent <= ws[i].scrollPercent + ws[i].duration}

FirstContaining(ws, percent) ==
    CHOOSE i \in Containing(ws, percent) : \A j \in Containing(ws, percent) : i <= j

\* C1: for every waypoint list and scroll fraction, the resolved waypoint is
\* the first in list order whose closed window [activationStart,
\* activationStart + activationDuration] contains the fraction, at most one
\* waypoint is resolved, and the result is null when no window contains it;
\* once mounted, the active waypoint carries the id resolved for the current
\* fraction.
C1_FirstMatchResolution ==
    /\ \A p \in Percents :
          LET r == findActiveWaypoint(waypoints, p)
          IN /\ Len(r) <= 1
             /\ (Containing(waypoints, p) = {}) <=> (r = <<>>)
             /\ r # <<>> => r[1].waypoint = waypoints[FirstContaining(waypoints, p)]
    /\ orchMounted =>
          IF Containing(waypoints, scrollPercent) = {}
          THEN activeWaypoint = <<>>
          ELSE /\ activeWaypoint # <<>>
               /\ activeWaypoint[1].waypoint.id =
                     waypoints[FirstContaining(waypoints, scrollPercent)].id

\* two overlapping windows of different ids contain the fraction; the first wins
C1_Witness ==
    /\ orchMounted
    /\ Len(waypoints) = 2
    /\ Containing(waypoints, scrollPercent) = {1, 2}
    /\ waypoints[1].id # waypoints[2].id
    /\ activeWaypoint # <<>>
    /\ activeWaypoint[1].waypoint = waypoints[1]

\* the id resolved by the previous update; nothing is resolved before the mount
PrevResolvedId ==
    IF orchMounted THEN WaypointId(findActiveWaypoint(waypoints, scrollPercent))
    ELSE "undefined"

\* C2: a change event is emitted only when the id resolved for the new scroll
\* fraction differs from the previously resolved id, at most one per update;
\* the same fraction again, or a fraction resolving to the same id (null after
\* null included), emits nothing.
C2_EmitOnlyOnIdChange ==
    [][ /\ Len(events') <= Len(events) + 1
        /\ events' # events =>
              WaypointId(findActiveWaypoint(waypoints', scrollPercent')) # PrevResolvedId
      ]_vars

\* another fraction inside the same window was fed after the mount: one event
C2_Witness ==
    /\ Len(feed) = 2
    /\ feed[1] # feed[2]
    /\ WaypointId(findActiveWaypoint(waypoints, feed[1])) # "undefined"
    /\ WaypointId(findActiveWaypoint(waypoints, feed[1]))
          = WaypointId(findActiveWaypoint(waypoints, feed[2]))
    /\ Len(events) = 1

\* waypoints = [{id: "w1", start: 0, duration: 30}, {id: "w2", start: 30, duration: 70}]
ScenarioWaypoints ==
    /\ Len(waypoints) = 2
    /\ waypoints[1].id = "w1" /\ waypoints[1].scrollPercent = 0
    /\ waypoints[1].duration = 300
    /\ waypoints[2].id = "w2" /\ waypoints[2].scrollPercent = 300
    /\ waypoints[2].duration = 700

\* C5 as stated: with the scenario waypoints update(29.9) resolves to w1 and
\* update(30.0) resolves to w2.
C5_AsStated ==
    (ScenarioWaypoints /\ orchMounted) =>
        /\ scrollPercent = 299 => WaypointId(activeWaypoint) = "w1"
        /\ scrollPercent = 300 => WaypointId(activeWaypoint) = "w2"

\* C5 amended: with the scenario waypoints update(29.9) and update(30.0) both
\* resolve to w1, whose closed window [0, 30] contains 30.0 and which is first
\* in list order; w2 is resolved for the fractions above 30.0.
C5_BoundaryResolvesToFirst ==
    (ScenarioWaypoints /\ orchMounted) =>
        /\ scrollPercent = 299 => WaypointId(activeWaypoint) = "w1"
        /\ scrollPercent = 300 => WaypointId(activeWaypoint) = "w1"
        /\ scrollPercent > 300 => WaypointId(activeWaypoint) = "w2"

\* 29.9 was fed, then 30.0; w1 is still active
C5_Witness ==
    /\ ScenarioWaypoints
    /\ Len(feed) >= 2
    /\ feed[Len(feed) - 1] = 299
    /\ feed[Len(feed)] = 300
    /\ scrollPercent = 300
    /\ WaypointId(activeWaypoint) = "w1"

NonDecreasing(f) == \A k \in 1..(Len(f) - 1) : f[k] <= f[k + 1]

\* the window boundaries the feed passes when it moves from prev up to cur: a
\* window is entered at its start and left behind its (closed) end
CrossedBoundaries(ws, prev, cur) ==
    {ws[i].scrollPercent : i \in {j \in 1..Len(ws) :
        prev < ws[j].scrollPercent /\ ws[j].scrollPercent <= cur}}
    \cup
    {ws[i].scrollPercent + ws[i].duration : i \in {j \in 1..Len(ws) :
        /\ prev <= ws[j].scrollPercent + ws[j].duration
        /\ ws[j].scrollPercent + ws[j].duration < cur}}

\* the boundaries crossed between consecutive updates, from the mount on
RECURSIVE CrossingCount(_, _, _)
CrossingCount(ws, f, k) ==
    IF k <= 1 THEN 0
    ELSE CrossingCount(ws, f, k - 1)
         + Cardinality(CrossedBoundaries(ws, f[k - 1], f[k]))

\* the event of the mount, which reports the window the feed starts in
MountEvents(ws, f) ==
    IF Len(f) >= 1 /\ findActiveWaypoint(ws, f[1]) # <<>> THEN 1 ELSE 0

ResolvedIdBefore(ws, f, k) ==
    IF k = 1 THEN "undefined" ELSE WaypointId(findActiveWaypoint(ws, f[k - 1]))

\* the updates whose resolved id differs from the one resolved just before
ResolutionChanges(ws, f) ==
    {k \in 1..Len(f) :
        WaypointId(findActiveWaypoint(ws, f[k])) # ResolvedIdBefore(ws, f, k)}

\* C6 as stated: a monotonically increasing feed produces exactly one change
\* event per waypoint boundary it crosses.
C6_AsStated ==
    NonDecreasing(feed) =>
        Len(events) - MountEvents(waypoints, feed)
            = CrossingCount(waypoints, feed, Len(feed))

\* C6 amended: a monotonically increasing feed produces exactly one change
\* event per update whose resolved waypoint id differs from the id resolved by
\* the update before it, in feed order; boundaries passed between two updates
\* that resolve to the same id produce none, nor does repeated identical input.
C6_OneEventPerResolutionChange ==
    NonDecreasing(feed) =>
        /\ Len(events) = Cardinality(ResolutionChanges(waypoints, feed))
        /\ \A n \in 1..Len(events) :
              \E k \in ResolutionChanges(waypoints, feed) :
                 /\ Cardinality({j \in ResolutionChanges(waypoints, feed) : j <= k}) = n
                 /\ events[n] = SceneEvent(findActiveWaypoint(waypoints, feed[k]))

\* an increasing feed entered a window, repeated itself, and left the window
C6_Witness ==
    /\ Len(feed) = 3
    /\ feed[1] = feed[2]
    /\ feed[2] < feed[3]
    /\ Len(events) = 2
    /\ events[1].id # "null"
    /\ events[2].id = "null"

(***************************************************************************)
(* IframeScrollBridge                                                      *)
(***************************************************************************)
throttleMs == 50

\* Date.now() when the bridge is constructed: far above throttleMs
StartClock == 20 * throttleMs

TimeSteps == {25, 50}
Callbacks == {"fn1", "fn2", "undefined"}
ScrollYs == {0, 200}
ViewportHeight == 100
DocumentHeight == 300

NoPayload == [kind |-> "none", v |-> 0]
Numeric(v) == [kind |-> "number", v |-> v]

\* the injected script: scrollPercent of sendUpdate, in tenths of a percent
ReporterPercent(scrollY, vh, dh) ==
    LET max == dh - vh
    IN IF max > 0 THEN (scrollY * 1000) \div max ELSE 0

\* the message sendUpdate posts
ReportMessage(scrollY) ==
    [type |-> "iframe-scroll",
     payload |-> Numeric(ReporterPercent(scrollY, ViewportHeight, DocumentHeight))]

\* messages other windows post to the host: another type tag, no data at all,
\* and the matching tag with a payload that is missing, lacks scrollPercent,
\* or carries a non-numeric scrollPercent
ForeignMessages ==
    {[type |-> "other", payload |-> Numeric(0)],
     [type |-> "undefined", payload |-> NoPayload],
     [type |-> "iframe-scroll", payload |-> [kind |-> "missing", v |-> 0]],
     [type |-> "iframe-scroll", payload |-> [kind |-> "noFraction", v |-> 0]],
     [type |-> "iframe-scroll", payload |-> [kind |-> "nonNumeric", v |-> 0]]}

\* the filter without the isActive check
FilteredByTypeOnly(active, m) == m.type # "iframe-scroll"

\* the filter without the type tag
FilteredByActivityOnly(active, m) == ~active

\* if (!isActive || event.data?.type !== 'iframe-scroll') return;
Filtered(active, m) == ~active \/ m.type # "iframe-scroll"

\* the throttle comparing against nothing: every report passes
ThrottleOpenAlways(t, last) == t - last >= 0

\* if (now - lastUpdateRef.current >= throttleMs)
ThrottleOpen(t, last) == t - last >= throttleMs

\* typeof onScrollChange === 'function'
Callable(cb) == cb # "undefined"

NoRun == [outcome |-> "none", type |-> "none", payload |-> NoPayload]
Run(outcome, m) == [outcome |-> outcome, type |-> m.type, payload |-> m.payload]

\* handleMessage, as the listener registered on the host window runs it
HandleMessage(m) ==
    IF life # "mounted"
    THEN UNCHANGED <<lastUpdateRef, delivered, lastRun, thrown>>
    ELSE IF Filtered(isActive, m)
    THEN /\ lastRun' = Run("filtered", m)
         /\ UNCHANGED <<lastUpdateRef, delivered, thrown>>
    ELSE IF ~ThrottleOpen(now, lastUpdateRef)
    THEN /\ lastRun' = Run("throttled", m)
         /\ UNCHANGED <<lastUpdateRef, delivered, thrown>>
    ELSE IF Callable(onScrollChange)
    THEN /\ delivered' = Append(delivered, now)
         /\ lastRun' = Run("forwarded", m)
         /\ lastUpdateRef' = now
         /\ UNCHANGED thrown
    ELSE IF guarded
    THEN /\ lastRun' = Run("notCallable", m)
         /\ lastUpdateRef' = now
         /\ UNCHANGED <<delivered, thrown>>
    ELSE /\ lastRun' = Run("threw", m)
         /\ thrown' = TRUE
         /\ UNCHANGED <<lastUpdateRef, delivered>>

\* injectScrollTracker: try { ... } catch (e) { console.warn(...) }
InjectScrollTracker ==
    IF ~docAccessible
    THEN /\ lastAttempt' = "denied"
         /\ UNCHANGED <<injectedRef, docReporters, channel>>
    ELSE IF injectedRef
    THEN /\ lastAttempt' = "skipped"
         /\ UNCHANGED <<injectedRef, docReporters, channel>>
    ELSE /\ docReporters < MaxReporters
         /\ Len(channel) < MaxChannel
         /\ docReporters' = docReporters + 1
         /\ channel' = Append(channel, ReportMessage(docScrollY))
         /\ injectedRef' = TRUE
         /\ lastAttempt' = "installed"

\* iframe.contentDocument?.readyState === 'complete': contentDocument is null
\* for a document that is not same-origin-accessible
ReadyStateComplete == docReady /\ docAccessible

\* the injection effect, run with the value of isActive of this render
AttachEffect(active) ==
    IF ~active
    THEN /\ injectedRef' = FALSE
         /\ loadListener' = FALSE
         /\ UNCHANGED <<docReporters, channel, lastAttempt>>
    ELSE IF ReadyStateComplete
    THEN /\ InjectScrollTracker
         /\ loadListener' = FALSE
    ELSE /\ loadListener' = TRUE
         /\ UNCHANGED <<injectedRef, docReporters, channel, lastAttempt>>

BridgeAbsent ==
    /\ guarded = TRUE
    /\ life = "new"
    /\ isActive = FALSE
    /\ onScrollChange = "fn1"
    /\ injectedRef = FALSE
    /\ lastUpdateRef = 0
    /\ loadListener = FALSE
    /\ docReady = FALSE
    /\ docAccessible = TRUE
    /\ docReporters = 0
    /\ pendingFrames = 0
    /\ docScrollY = 0
    /\ channel = <<>>
    /\ now = StartClock
    /\ delivered = <<>>
    /\ lastRun = NoRun
    /\ thrown = FALSE
    /\ lastAttempt = "none"
    /\ docLoadSeen = FALSE

InitBridge ==
    /\ guarded \in BOOLEAN
    /\ life = "new"
    /\ isActive \in BOOLEAN
    /\ onScrollChange \in Callbacks
    /\ injectedRef = FALSE
    /\ lastUpdateRef = 0
    /\ loadListener = FALSE
    /\ docReady \in BOOLEAN
    /\ docAccessible \in BOOLEAN
    /\ docReporters = 0
    /\ pendingFrames = 0
    /\ docScrollY = 0
    /\ channel = <<>>
    /\ now = StartClock
    /\ delivered = <<>>
    /\ lastRun = NoRun
    /\ thrown = FALSE
    /\ lastAttempt = "none"
    /\ docLoadSeen = FALSE

BridgeMount ==
    /\ life = "new"
    /\ life' = "mounted"
    /\ AttachEffect(isActive)
    /\ UNCHANGED <<guarded, isActive, onScrollChange, lastUpdateRef, docReady,
                   docAccessible, pendingFrames, docScrollY, now, delivered,
                   lastRun, thrown, docLoadSeen>>
    /\ UNCHANGED exceptBridge

\* the parent re-renders the bridge with another isActive
SetActive(b) ==
    /\ life = "mounted"
    /\ b # isActive
    /\ isActive' = b
    /\ AttachEffect(b)
    /\ UNCHANGED <<guarded, life, onScrollChange, lastUpdateRef, docReady,
                   docAccessible, pendingFrames, docScrollY, now, delivered,
                   lastRun, thrown, docLoadSeen>>
    /\ UNCHANGED exceptBridge

\* the parent re-renders the bridge with another onScrollChange: the message
\* listener is removed and registered again
SetCallback(cb) ==
    /\ life = "mounted"
    /\ cb # onScrollChange
    /\ onScrollChange' = cb
    /\ UNCHANGED <<guarded, life, isActive, injectedRef, lastUpdateRef, loadListener,
                   docReady, docAccessible, docReporters, pendingFrames, docScrollY,
                   channel, now, delivered, lastRun, thrown, lastAttempt,
                   docLoadSeen>>
    /\ UNCHANGED exceptBridge

\* the iframe starts loading another document; reports posted by the previous
\* document have been dispatched by then
IframeNavigate(accessible) ==
    /\ docReady
    /\ channel = <<>>
    /\ docReady' = FALSE
    /\ docAccessible' = accessible
    /\ docReporters' = 0
    /\ pendingFrames' = 0
    /\ docScrollY' = 0
    /\ docLoadSeen' = FALSE
    /\ UNCHANGED <<guarded, life, isActive, onScrollChange, injectedRef, lastUpdateRef,
                   loadListener, channel, now, delivered, lastRun, thrown,
                   lastAttempt>>
    /\ UNCHANGED exceptBridge

\* the load event of the embedded document
IframeLoad ==
    /\ ~docReady
    /\ docReady' = TRUE
    /\ docLoadSeen' = (life = "mounted" /\ isActive)
    /\ IF loadListener
       THEN InjectScrollTracker
       ELSE UNCHANGED <<injectedRef, docReporters, channel, lastAttempt>>
    /\ UNCHANGED <<guarded, life, isActive, onScrollChange, lastUpdateRef, loadListener,
                   docAccessible, pendingFrames, docScrollY, now, delivered,
                   lastRun, thrown>>
    /\ UNCHANGED exceptBridge

\* a scroll event in the embedded document: every reporter requests a frame
DocScroll(y) ==
    /\ docReady
    /\ y # docScrollY
    /\ docScrollY' = y
    /\ pendingFrames' = docReporters
    /\ UNCHANGED <<guarded, life, isActive, onScrollChange, injectedRef, lastUpdateRef,
                   loadListener, docReady, docAccessible, docReporters, channel, now,
                   delivered, lastRun, thrown, lastAttempt, docLoadSeen>>
    /\ UNCHANGED exceptBridge

RECURSIVE Repeat(_, _)
Repeat(x, n) == IF n = 0 THEN <<>> ELSE Append(Repeat(x, n - 1), x)

\* the animation frame of the embedded document: every ticking reporter sends
AnimationFrame ==
    /\ pendingFrames > 0
    /\ Len(channel) + pendingFrames <= MaxChannel
    /\ channel' = channel \o Repeat(ReportMessage(docScrollY), pendingFrames)
    /\ pendingFrames' = 0
    /\ UNCHANGED <<guarded, life, isActive, onScrollChange, injectedRef, lastUpdateRef,
                   loadListener, docReady, docAccessible, docReporters, docScrollY, now,
                   delivered, lastRun, thrown, lastAttempt, docLoadSeen>>
    /\ UNCHANGED exceptBridge

\* the host window dispatches the next posted report to its message listeners
Dispatch ==
    /\ channel # <<>>
    /\ HandleMessage(Head(channel))
    /\ channel' = Tail(channel)
    /\ UNCHANGED <<guarded, life, isActive, onScrollChange, injectedRef, loadListener,
                   docReady, docAccessible, docReporters, pendingFrames, docScrollY,
                   now, lastAttempt, docLoadSeen>>
    /\ UNCHANGED exceptBridge

\* a message of another sender arrives at the host window
ForeignMessage(m) ==
    /\ HandleMessage(m)
    /\ UNCHANGED <<guarded, life, isActive, onScrollChange, injectedRef, loadListener,
                   docReady, docAccessible, docReporters, pendingFrames, docScrollY,
                   channel, now, lastAttempt, docLoadSeen>>
    /\ UNCHANGED exceptBridge

Advance(d) ==
    /\ now + d <= StartClock + MaxElapsed
    /\ now' = now + d
    /\ UNCHANGED <<guarded, life, isActive, onScrollChange, injectedRef, lastUpdateRef,
                   loadListener, docReady, docAccessible, docReporters, pendingFrames,
                   docScrollY, channel, delivered, lastRun, thrown, lastAttempt,
                   docLoadSeen>>
    /\ UNCHANGED exceptBridge

\* unmount: every effect's cleanup runs, removing the load listener and the
\* message listener
BridgeUnmount ==
    /\ life = "mounted"
    /\ life' = "unmounted"
    /\ loadListener' = FALSE
    /\ UNCHANGED <<guarded, isActive, onScrollChange, injectedRef, lastUpdateRef,
                   docReady, docAccessible, docReporters, pendingFrames, docScrollY,
                   channel, now, delivered, lastRun, thrown, lastAttempt,
                   docLoadSeen>>
    /\ UNCHANGED exceptBridge

NextBridge ==
    \/ BridgeMount
    \/ \E b \in BOOLEAN : SetActive(b)
    \/ \E cb \in Callbacks : SetCallback(cb)
    \/ \E a \in BOOLEAN : IframeNavigate(a)
    \/ IframeLoad
    \/ \E y \in ScrollYs : DocScroll(y)
    \/ AnimationFrame
    \/ Dispatch
    \/ \E m \in ForeignMessages : ForeignMessage(m)
    \/ \E d \in TimeSteps : Advance(d)

C4_AsStated ==
    [][ lastAttempt' = "denied" =>
          /\ injectedRef' = FALSE
          /\ lastAttempt = "denied" =>
                ~(Len(delivered') > Len(delivered) /\ lastRun'.payload.kind = "number")
      ]_vars

\* C7 as stated: after the load event of an accessible document fired while
\* the bridge was active, a reporter is installed in that document, so reports
\* keep flowing after a reload.
C7_AsStated ==
    (life = "mounted" /\ isActive /\ docLoadSeen /\ docAccessible) => docReporters >= 1

\* C8: a message without the scroll-report type tag, or without data, never
\* invokes the callback and leaves the throttle timestamp unchanged.
C8_NonMatchingIgnored ==
    [][ \A m \in ForeignMessages :
           (m.type # "iframe-scroll" /\ ForeignMessage(m)) =>
               /\ UNCHANGED <<delivered, lastUpdateRef, thrown>>
               /\ lastRun'.outcome \in {"none", "filtered"}
      ]_vars

\* a message of another type was ignored while the bridge was mounted, with
\* the throttle open, a callable callback and a report waiting behind it
C8_Witness ==
    /\ life = "mounted"
    /\ isActive
    /\ lastRun.outcome = "filtered"
    /\ lastRun.type = "other"
    /\ Callable(onScrollChange)
    /\ ThrottleOpen(now, lastUpdateRef)
    /\ delivered # <<>>
    /\ channel # <<>>

\* C9 as stated: a message with the matching type tag and a malformed payload
\* is never forwarded to the callback.
C9_AsStated ==
    lastRun.outcome = "forwarded" => lastRun.payload.kind = "number"

\* C10 as stated: while the callback is not callable the listener neither
\* throws nor invokes anything.
C10_AsStated ==
    [][ (life = "mounted" /\ ~Callable(onScrollChange)) =>
            (thrown' = FALSE /\ delivered' = delivered) ]_vars

\* the bridge through its whole life, unmount included; the clock moves by
\* whole throttle intervals
NextBridgeLife ==
    \/ BridgeMount
    \/ BridgeUnmount
    \/ \E b \in BOOLEAN : SetActive(b)
    \/ \E cb \in Callbacks : SetCallback(cb)
    \/ \E a \in BOOLEAN : IframeNavigate(a)
    \/ IframeLoad
    \/ \E y \in ScrollYs : DocScroll(y)
    \/ AnimationFrame
    \/ Dispatch
    \/ \E m \in ForeignMessages : ForeignMessage(m)
    \/ Advance(throttleMs)

\* the bridge was deactivated or unmounted
Detached == life = "unmounted" \/ (life = "mounted" /\ ~isActive)

C31_AsStated ==
    [][ /\ pendingFrames' <= 1
        /\ ((\E y \in ScrollYs : DocScroll(y)) /\ docReporters >= 1) => pendingFrames' = 1
        /\ AnimationFrame => Len(channel') = Len(channel) + 1
        /\ (pendingFrames' < pendingFrames) =>
               (AnimationFrame \/ \E a \in BOOLEAN : IframeNavigate(a))
      ]_vars

\* C37 as stated: at most one scroll reporter is ever installed in a given
\* embedded document, across any sequence of activate/deactivate toggles of
\* the bridge and load events, so one scroll event never produces more than
\* one report.
C37_AsStated ==
    /\ docReporters <= 1
    /\ pendingFrames <= 1

\* the bridge inside the reader, whose callback is
\* (data) => setScrollPercent(data.scrollPercent): the host window dispatches
\* the next posted report, and a forwarded report becomes the fraction the
\* reader holds
DispatchToReader ==
    /\ channel # <<>>
    /\ HandleMessage(Head(channel))
    /\ channel' = Tail(channel)
    /\ scrollPercent' = IF Len(delivered') > Len(delivered)
                        THEN Head(channel).payload.v
                        ELSE scrollPercent
    /\ UNCHANGED <<guarded, life, isActive, onScrollChange, injectedRef, loadListener,
                   docReady, docAccessible, docReporters, pendingFrames, docScrollY,
                   now, lastAttempt, docLoadSeen>>
    /\ UNCHANGED <<waypoints, activeWaypoint, orchMounted, events, feed>>
    /\ UNCHANGED <<callVars, overlayVars, canvasVars, readerVars, pairVars, appVars, loopVars, pollVars>>

\* the bridge and the reader's scroll fraction while the document scrolls
NextSync ==
    \/ BridgeMount
    \/ IframeLoad
    \/ \E y \in ScrollYs : DocScroll(y)
    \/ AnimationFrame
    \/ DispatchToReader
    \/ \E d \in TimeSteps : Advance(d)

\* the document has stopped scrolling and every report it posted was handled
Settled ==
    /\ life = "mounted"
    /\ isActive
    /\ Callable(onScrollChange)
    /\ docReporters >= 1
    /\ pendingFrames = 0
    /\ channel = <<>>

\* C35 as stated: scroll sync is eventually exact: after the embedded
\* document stops scrolling, the host's last-known scroll fraction equals the
\* document's final scroll fraction, i.e. the last report of a burst is not
\* lost to the throttle.
C35_AsStated ==
    Settled => scrollPercent = ReporterPercent(docScrollY, ViewportHeight, DocumentHeight)

(***************************************************************************)
(* The injected reporter as a function of the window it runs in            *)
(* (IframeScrollBridge.tsx, sendUpdate)                                    *)
(***************************************************************************)
\* no call is under study
CallAbsent ==
    /\ args = <<>>
    /\ ret = <<>>

\* window.scrollY: rubber-band overscroll reports offsets below zero and
\* above the maximum scroll offset
WindowScrollYs == {-50, 0, 100, 200, 250, 400}
\* window.innerHeight
InnerHeights == {100, 300}
\* document.documentElement.scrollHeight
ScrollHeights == {0, 100, 300, 400, 500}

InitReporter ==
    /\ args \in [scrollY : WindowScrollYs, vh : InnerHeights, dh : ScrollHeights]
    /\ ret = <<>>

\* sendUpdate: posts { type: 'iframe-scroll', scrollPercent }
sendUpdate ==
    /\ ret = <<>>
    /\ ret' = <<[type |-> "iframe-scroll",
                 payload |-> Numeric(ReporterPercent(args.scrollY, args.vh, args.dh))]>>
    /\ UNCHANGED args
    /\ UNCHANGED exceptCall

\* the window scrolls or is resized before the next report
WindowChange(y, vh) ==
    /\ ret # <<>>
    /\ args' = [args EXCEPT !.scrollY = y, !.vh = vh]
    /\ ret' = <<>>
    /\ UNCHANGED exceptCall

NextReporter ==
    \/ sendUpdate
    \/ \E y \in WindowScrollYs, vh \in InnerHeights : WindowChange(y, vh)

Clamp(v, lo, hi) == IF v < lo THEN lo ELSE IF v > hi THEN hi ELSE v

\* C11 as stated: every report carries
\* clamp(scrollY / max(docHeight - viewportHeight, 0) * 100, 0, 100), a value
\* of [0, 100] that is 0 when the document is not taller than the viewport.
C11_AsStated ==
    ret # <<>> =>
        LET max == IF args.dh - args.vh > 0 THEN args.dh - args.vh ELSE 0
            v == ret[1].payload.v
        IN /\ v >= 0 /\ v <= 1000
           /\ v = IF max = 0 THEN 0
                  ELSE Clamp((args.scrollY * 1000) \div max, 0, 1000)

(***************************************************************************)
(* pathFinder: points on the Catmull-Rom path through the layout hints     *)
(* (utils/pathFinder.ts, its stage-snapping build, lib/motionLogic.ts)     *)
(*                                                                         *)
(* Normalised coordinates are carried in thousandths (500 is 0.5), the     *)
(* path parameter t in hundredths (100 is 1.0), stage samples and canvas   *)
(* sizes in pixels.                                                        *)
(***************************************************************************)
MaxHints == 3
MaxGrid == 2

\* a coordinate that is missing from its hint (typeof is not 'number')
Undefined == -1000000
\* the result of arithmetic on a missing coordinate
NaN == -2000000

IsNumber(v) == v # Undefined
isNaN(v) == v = NaN \/ v = Undefined

Min(a, b) == IF a < b THEN a ELSE b
Max(a, b) == IF a > b THEN a ELSE b

\* layout hints as the storyboard supplies them: normalised points, and an
\* entry whose x is missing
HintSet ==
    {[x |-> 100, y |-> 200], [x |-> 500, y |-> 500], [x |-> 1000, y |-> 0],
     [x |-> Undefined, y |-> 300]}
Ts == {-50, 0, 25, 50, 100, 150}

\* canvasWidth, canvasHeight: <<0, 0>> when the optional arguments are left out
CanvasSizes == {<<0, 0>>, <<100, 90>>}
\* pathFinder.stageGrid: lists of stage samples, in pixels
StageSamples == {[x |-> 0, y |-> 0], [x |-> 45, y |-> 0], [x |-> 45, y |-> 45]}
StageGrids == {g \in SeqsUpTo(StageSamples, MaxGrid) :
                  \A i, j \in 1..Len(g) : i < j => g[i] # g[j]}

\* Math.atan2(dy, dx), kept as the vector it is the angle of; every vector
\* of angle 0 is kept as (1, 0)
Angle0 == [dy |-> 0, dx |-> 1]
atan2(dy, dx) == IF dy = 0 /\ dx >= 0 THEN Angle0 ELSE [dy |-> dy, dx |-> dx]

PathState(x, y, angle) == [kind |-> "PathState", x |-> x, y |-> y, angle |-> angle]
Point(x, y) == [kind |-> "Point", x |-> x, y |-> y]
TypeError == [kind |-> "TypeError"]

\* points.filter(p => p && typeof p.x === 'number' && typeof p.y === 'number')
validPoints(points) ==
    SelectSeq(points, LAMBDA p : IsNumber(p.x) /\ IsNumber(p.y))

\* Math.max(0, Math.min(1, t))
clampedT(t) == Max(0, Min(100, t))

\* i = Math.min(Math.floor(rawIndex), n - 1), with rawIndex = t * n
SegmentIndex(t, n) == Min((t * n) \div 100, n - 1)

\* localT = rawIndex - i, in hundredths
LocalT(t, n) == t * n - 100 * SegmentIndex(t, n)

\* the control points without the look-behind: p0 is taken to be p1
ControlIndicesNoLookBehind(i, n) == <<i, i, i + 1, Min(i + 2, n)>>

\* the indices of p0, p1, p2, p3 in the (0-based) array
ControlIndices(i, n) == <<Max(i - 1, 0), i, i + 1, Min(i + 2, n)>>

\* the spline polynomial with a wrong coefficient of c1 in the square term
calculateCoordMiscoded(c0, c1, c2, c3, T) ==
    IF isNaN(c0) \/ isNaN(c1) \/ isNaN(c2) \/ isNaN(c3) THEN NaN
    ELSE LET cube == ((3 * c1 - c0 - 3 * c2 + c3) * T) \div 100
             square == ((cube + 2 * c0 - 4 * c1 + 4 * c2 - c3) * T) \div 100
             line == ((square + c2 - c0) * T) \div 100
         IN (line + 2 * c1) \div 2

\* calculateCoord / calc: 0.5 * (2 c1 + (-c0 + c2) T + (2 c0 - 5 c1 + 4 c2 - c3) T^2
\*                               + (-c0 + 3 c1 - 3 c2 + c3) T^3), T in hundredths;
\* the powers of T are taken one factor at a time, each product rounded to a
\* thousandth
calculateCoord(c0, c1, c2, c3, T) ==
    IF isNaN(c0) \/ isNaN(c1) \/ isNaN(c2) \/ isNaN(c3) THEN NaN
    ELSE LET cube == ((3 * c1 - c0 - 3 * c2 + c3) * T) \div 100
             square == ((cube + 2 * c0 - 5 * c1 + 4 * c2 - c3) * T) \div 100
             line == ((square + c2 - c0) * T) \div 100
         IN (line + 2 * c1) \div 2

\* the coordinate of the spline through pts (an array read 0-based) at local T
SplineCoord(pts, idx, T, c) ==
    calculateCoord(pts[idx[1] + 1][c], pts[idx[2] + 1][c],
                   pts[idx[3] + 1][c], pts[idx[4] + 1][c], T)

\* Math.max(0, Math.min(1, isNaN(v) ? 0.5 : v))
ClampCoord(v) == IF isNaN(v) THEN 500 ELSE Max(0, Min(1000, v))

\* utils/pathFinder.ts: getPointOnPath(points, t): PathState
getPointOnPath(points, t) ==
    LET valid == validPoints(points)
    IN IF Len(points) = 0 \/ Len(valid) = 0 THEN PathState(500, 500, Angle0)
       ELSE IF Len(valid) = 1 THEN PathState(valid[1].x, valid[1].y, Angle0)
       ELSE LET n == Len(valid) - 1
                ct == clampedT(t)
                idx == ControlIndices(SegmentIndex(ct, n), n)
                localT == LocalT(ct, n)
                x == SplineCoord(valid, idx, localT, "x")
                y == SplineCoord(valid, idx, localT, "y")
                aheadX == SplineCoord(valid, idx, localT + 1, "x")
                aheadY == SplineCoord(valid, idx, localT + 1, "y")
            IN PathState(ClampCoord(x), ClampCoord(y), atan2(aheadY - y, aheadX - x))


\* isNaN(result.x) ? 0.5 : result.x
OrHalf(v) == IF isNaN(v) THEN 500 ELSE v

\* utils/pathFinder.ts, first definition: getPointOnPath(points, t): Point.
\* t is not clamped; reading .x of an array slot that does not exist throws
getPointOnPathUnclamped(points, t) ==
    LET valid == validPoints(points)
    IN IF Len(points) = 0 \/ Len(valid) = 0 THEN Point(500, 500)
       ELSE IF Len(valid) = 1 THEN Point(valid[1].x, valid[1].y)
       ELSE LET n == Len(valid) - 1
                idx == ControlIndices(SegmentIndex(t, n), n)
                localT == LocalT(t, n)
            IN IF \E k \in 1..4 : idx[k] < 0 \/ idx[k] > n THEN TypeError
               ELSE Point(OrHalf(SplineCoord(valid, idx, localT, "x")),
                          OrHalf(SplineCoord(valid, idx, localT, "y")))

\* the builds of pathFinder that carry a stage grid
Builds == {"part_016", "motionLogic"}

\* squared distance, in hundredths of a pixel, from a stage sample to the
\* target (x * canvasWidth, y * canvasHeight)
DistSq(point, x, y, cw, ch) ==
    (point.x * 100 - (x * cw) \div 10) * (point.x * 100 - (x * cw) \div 10)
    + (point.y * 100 - (y * ch) \div 10) * (point.y * 100 - (y * ch) \div 10)

\* the scan that lets a later sample of equal distance win
RECURSIVE ScanGridLastOnTies(_, _, _, _, _, _, _)
ScanGridLastOnTies(grid, x, y, cw, ch, k, best) ==
    IF k > Len(grid) THEN best
    ELSE ScanGridLastOnTies(grid, x, y, cw, ch, k + 1,
            IF DistSq(grid[k], x, y, cw, ch) <= DistSq(grid[best], x, y, cw, ch)
            THEN k ELSE best)

\* the loop of snapToStage: the index of closestPoint after samples k.. are
\* scanned; `distance < minDistance` keeps the earlier sample on ties, and
\* the first sample always beats Infinity
RECURSIVE ScanGrid(_, _, _, _, _, _, _)
ScanGrid(grid, x, y, cw, ch, k, best) ==
    IF k > Len(grid) THEN best
    ELSE ScanGrid(grid, x, y, cw, ch, k + 1,
            IF DistSq(grid[k], x, y, cw, ch) < DistSq(grid[best], x, y, cw, ch)
            THEN k ELSE best)

\* closestPoint: with a NaN target no comparison succeeds and stageGrid[0] stays
closestPoint(grid, x, y, cw, ch) ==
    IF isNaN(x) \/ isNaN(y) THEN grid[1]
    ELSE grid[ScanGrid(grid, x, y, cw, ch, 1, 1)]

\* Math.max(0, Math.min(1, v))
Clamp01(v) == IF isNaN(v) THEN NaN ELSE Max(0, Min(1000, v))

\* v / canvasWidth for a normalised v, again in thousandths
DivideByCanvas(v, c) == IF isNaN(v) THEN NaN ELSE v \div c

\* a pixel coordinate as a fraction of the canvas, in thousandths
Normalise(px, c) == (px * 1000) \div c

\* snapToStage(x, y, canvasWidth, canvasHeight) of either build
snapToStage(build, x, y, cw, ch, grid) ==
    IF Len(grid) = 0
    THEN IF build = "part_016"
         THEN Point(DivideByCanvas(x, cw), DivideByCanvas(y, ch))
         ELSE Point(Clamp01(x), Clamp01(y))
    ELSE LET closest == closestPoint(grid, x, y, cw, ch)
         IN Point(Normalise(closest.x, cw), Normalise(closest.y, ch))

\* canvasWidth && canvasHeight
CanvasGiven(canvas) == canvas[1] # 0 /\ canvas[2] # 0

\* part_016: getPointOnPath(points, t, canvasWidth?, canvasHeight?): PathState
getPointOnPathSnapping(points, t, canvas, grid) ==
    LET valid == validPoints(points)
        cw == canvas[1]
        ch == canvas[2]
    IN IF Len(points) = 0 \/ Len(valid) = 0 THEN PathState(500, 500, Angle0)
       ELSE IF Len(valid) = 1
       THEN LET snapped == IF CanvasGiven(canvas)
                           THEN snapToStage("part_016", valid[1].x, valid[1].y, cw, ch, grid)
                           ELSE valid[1]
            IN PathState(snapped.x, snapped.y, Angle0)
       ELSE LET n == Len(valid) - 1
                ct == clampedT(t)
                idx == ControlIndices(SegmentIndex(ct, n), n)
                localT == LocalT(ct, n)
                rawX == SplineCoord(valid, idx, localT, "x")
                rawY == SplineCoord(valid, idx, localT, "y")
                snap == CanvasGiven(canvas) /\ Len(grid) > 0
                snapped == snapToStage("part_016", rawX, rawY, cw, ch, grid)
                x == IF snap THEN snapped.x ELSE rawX
                y == IF snap THEN snapped.y ELSE rawY
                aheadX == SplineCoord(valid, idx, localT + 1, "x")
                aheadY == SplineCoord(valid, idx, localT + 1, "y")
            IN PathState(ClampCoord(x), ClampCoord(y), atan2(aheadY - y, aheadX - x))

\* lib/motionLogic.ts: getSplinePoint(points, t): Point.  Reading .x of an
\* array slot that does not exist throws a TypeError.
getSplinePoint(points, t) ==
    LET n == Len(points) - 1
        idx == ControlIndices(SegmentIndex(t, n), n)
        localT == LocalT(t, n)
    IN IF \E k \in 1..4 : idx[k] < 0 \/ idx[k] > n THEN TypeError
       ELSE Point(SplineCoord(points, idx, localT, "x"),
                  SplineCoord(points, idx, localT, "y"))

\* the calls under study
PathCalls ==
    [fn : {"getPointOnPath", "getPointOnPathUnclamped", "getSplinePoint"}, points : SeqsUpTo(HintSet, MaxHints),
     t : Ts, canvas : {<<0, 0>>}, grid : {<<>>}]
    \cup
    [fn : {"getPointOnPathSnapping"}, points : SeqsUpTo(HintSet, MaxHints),
     t : Ts, canvas : CanvasSizes, grid : StageGrids]

InitPath ==
    /\ args \in PathCalls
    /\ ret = <<>>

CallGetPointOnPath ==
    /\ args.fn = "getPointOnPath"
    /\ ret = <<>>
    /\ ret' = <<getPointOnPath(args.points, args.t)>>
    /\ UNCHANGED args
    /\ UNCHANGED exceptCall

CallGetPointOnPathSnapping ==
    /\ args.fn = "getPointOnPathSnapping"
    /\ ret = <<>>
    /\ ret' = <<getPointOnPathSnapping(args.points, args.t, args.canvas, args.grid)>>
    /\ UNCHANGED args
    /\ UNCHANGED exceptCall

CallGetPointOnPathUnclamped ==
    /\ args.fn = "getPointOnPathUnclamped"
    /\ ret = <<>>
    /\ ret' = <<getPointOnPathUnclamped(args.points, args.t)>>
    /\ UNCHANGED args
    /\ UNCHANGED exceptCall

CallGetSplinePoint ==
    /\ args.fn = "getSplinePoint"
    /\ ret = <<>>
    /\ ret' = <<getSplinePoint(args.points, args.t)>>
    /\ UNCHANGED args
    /\ UNCHANGED exceptCall

NextPath ==
    \/ CallGetPointOnPath
    \/ CallGetPointOnPathSnapping
    \/ CallGetPointOnPathUnclamped
    \/ CallGetSplinePoint

\* every entry of the list is a hint: both coordinates are numbers
WellFormed(points) == \A k \in 1..Len(points) : IsNumber(points[k].x) /\ IsNumber(points[k].y)

\* C12 as stated: for every t an empty hint list gives (0.5, 0.5) with
\* heading 0 and a one-hint list gives exactly that hint with heading 0
\* (calls that pass no canvas size, so that no snapping is asked for).
C12_AsStated ==
    (ret # <<>> /\ ~CanvasGiven(args.canvas) /\ WellFormed(args.points)) =>
        /\ Len(args.points) = 0 => ret[1] = PathState(500, 500, Angle0)
        /\ Len(args.points) = 1 =>
               ret[1] = PathState(args.points[1].x, args.points[1].y, Angle0)

SplineHints == IF args.fn = "getSplinePoint" THEN args.points ELSE validPoints(args.points)

SnapCoords == {-200, 0, 250, 500, 1000, 1300}
\* canvas.width, canvas.height
SnapCanvases == {<<100, 90>>, <<200, 100>>}

\* entities of one frame: the beat index and the number of beats
MaxEntities == 2

\* the builds of OverlayMotion that separate the entities of a frame
OverlayBuilds == {"part_008", "part_009"}

SnapCalls ==
    [fn : {"snapToStage"}, build : Builds, x : SnapCoords, y : SnapCoords,
     canvas : SnapCanvases, grid : StageGrids]
    \cup
    [fn : {"placeEntity"}, build : Builds, x : {0, 250, 500, 1000}, y : {0, 250, 500, 1000},
     canvas : SnapCanvases, grid : StageGrids,
     index : 0..(MaxEntities - 1), count : 1..MaxEntities]

\* the cast of one frame: the path point the entities share, and their number
CastCalls ==
    [fn : {"placeCast"}, overlay : OverlayBuilds, x : {0, 250, 500, 1000},
     y : {0, 250, 500, 1000}, canvas : SnapCanvases, count : 1..MaxEntities]

\* the factor of the separation: 70 in part_008, 60 in part_009
Gap(overlay) == IF overlay = "part_008" THEN 70 ELSE 60

\* (index - (entities.length - 1) / 2) * gap
separation(overlay, index, count) == ((2 * index - (count - 1)) * Gap(overlay)) \div 2

\* index % 2 === 0 ? separation : -separation
lateralOffset(overlay, index, count) ==
    IF index % 2 = 0 THEN separation(overlay, index, count)
    ELSE -separation(overlay, index, count)

\* rawX, rawY of one entity, in canvas pixels, before any snapping
rawPosition(overlay, currentPoint, index, count, canvas) ==
    [x |-> (currentPoint.x * canvas[1]) \div 1000 + lateralOffset(overlay, index, count),
     y |-> (currentPoint.y * canvas[2]) \div 1000]

\* the forEach over the entities of one frame, which share the path point
castPositions(overlay, currentPoint, count, canvas) ==
    [i \in 1..count |-> rawPosition(overlay, currentPoint, i - 1, count, canvas)]

\* OverlayMotion, the placement of one entity of a frame: the path point is
\* moved sideways by the separation, snapped, and scaled to canvas pixels
EntityPlacement(build, currentPoint, index, count, canvas, grid) ==
    LET cw == canvas[1]
        ch == canvas[2]
        rawX == (currentPoint.x * cw) \div 1000 + lateralOffset("part_008", index, count)
        rawY == (currentPoint.y * ch) \div 1000
        nx == (rawX * 1000) \div cw
        ny == (rawY * 1000) \div ch
        finalSnapped == snapToStage(build, nx, ny, cw, ch, grid)
    IN [kind |-> "painted", rawX |-> nx, rawY |-> ny,
        x |-> (finalSnapped.x * cw) \div 1000,
        y |-> (finalSnapped.y * ch) \div 1000]

InitSnap ==
    /\ args \in SnapCalls
    /\ ret = <<>>

CallSnapToStage ==
    /\ args.fn = "snapToStage"
    /\ ret = <<>>
    /\ ret' = <<snapToStage(args.build, args.x, args.y,
                            args.canvas[1], args.canvas[2], args.grid)>>
    /\ UNCHANGED args
    /\ UNCHANGED exceptCall

PlaceEntity ==
    /\ args.fn = "placeEntity"
    /\ args.index < args.count
    /\ ret = <<>>
    /\ ret' = <<EntityPlacement(args.build, [x |-> args.x, y |-> args.y],
                                args.index, args.count, args.canvas, args.grid)>>
    /\ UNCHANGED args
    /\ UNCHANGED exceptCall

InitCast ==
    /\ args \in CastCalls
    /\ ret = <<>>

CallPlaceCast ==
    /\ args.fn = "placeCast"
    /\ ret = <<>>
    /\ ret' = <<castPositions(args.overlay, [x |-> args.x, y |-> args.y],
                              args.count, args.canvas)>>
    /\ UNCHANGED args
    /\ UNCHANGED exceptCall

\* setStageGrid(grid), then the next snap
SetStageGrid(grid) ==
    /\ ret # <<>>
    /\ args' = [args EXCEPT !.grid = grid]
    /\ ret' = <<>>
    /\ UNCHANGED exceptCall

NextSnap ==
    \/ CallSnapToStage
    \/ PlaceEntity
    \/ \E grid \in StageGrids : SetStageGrid(grid)

\* a stage sample as snapToStage returns it
NormalisedSample(s, canvas) == Point(Normalise(s.x, canvas[1]), Normalise(s.y, canvas[2]))

\* C14 as stated: snap returns a point of the free-sample set when the set is
\* not empty and the input (x, y) unmodified when it is empty.
C14_AsStated ==
    (ret # <<>> /\ args.fn = "snapToStage") =>
        IF Len(args.grid) > 0
        THEN \E k \in 1..Len(args.grid) : ret[1] = NormalisedSample(args.grid[k], args.canvas)
        ELSE ret[1] = Point(args.x, args.y)

\* the samples of the grid nearest to the target, by squared pixel distance
Nearest(grid, x, y, canvas) ==
    {k \in 1..Len(grid) :
        \A j \in 1..Len(grid) :
            DistSq(grid[k], x, y, canvas[1], canvas[2])
                <= DistSq(grid[j], x, y, canvas[1], canvas[2])}

\* the first of them in list order
FirstNearest(grid, x, y, canvas) ==
    CHOOSE k \in Nearest(grid, x, y, canvas) :
        \A j \in Nearest(grid, x, y, canvas) : k <= j

\* C15: with at least one free sample, the point returned is the free sample
\* of minimum squared pixel distance to the raw coordinate, the first in list
\* order on ties, and the position an entity is painted at is that sample.
C15_SnapsToNearestSample ==
    (ret # <<>> /\ Len(args.grid) > 0) =>
        IF args.fn = "snapToStage"
        THEN ret[1] = NormalisedSample(
                 args.grid[FirstNearest(args.grid, args.x, args.y, args.canvas)],
                 args.canvas)
        ELSE LET s == args.grid[FirstNearest(args.grid, ret[1].rawX, ret[1].rawY,
                                             args.canvas)]
             IN /\ ret[1].x = s.x /\ ret[1].y = s.y
                /\ \E k \in 1..Len(args.grid) :
                       args.grid[k] = [x |-> ret[1].x, y |-> ret[1].y]

\* an entity was painted on the first of two samples equally far from its
\* raw position
C15_Witness ==
    /\ ret # <<>>
    /\ args.fn = "placeEntity"
    /\ Len(args.grid) = 2
    /\ Cardinality(Nearest(args.grid, ret[1].rawX, ret[1].rawY, args.canvas)) = 2
    /\ args.grid[1] = [x |-> ret[1].x, y |-> ret[1].y]

NextCast == CallPlaceCast

\* C25: for a scene with k >= 2 action beats sharing one path, the lateral
\* separation offsets assigned by beat index are pairwise distinct, so no two
\* entities of the same frame get the same pre-snap position.
C25_AsStated ==
    (ret # <<>> /\ args.fn = "placeCast" /\ args.count >= 2) =>
        \A i, j \in 1..args.count : i # j => ret[1][i] # ret[1][j]

(***************************************************************************)
(* OverlayMotion: the stage grid and the frame loop (part_008)             *)
(*                                                                         *)
(* Lengths are pixels.  An element's box is kept in document coordinates;  *)
(* getBoundingClientRect gives it relative to the viewport.                *)
(***************************************************************************)
MaxElements == 2
\* how many resize and scroll events one burst holds
MaxBurst == 3

\* const step = 45
step == 45
\* const padding = 10
padding == 10

\* document.querySelectorAll('p, img, h1, ..., table, font, li, a, span, div')
BlockerTags == {"p", "img", "h1", "h2", "h3", "h4", "h5", "h6", "table", "font",
                "li", "a", "span", "div"}

\* elements a document may hold: a paragraph, an image, a hidden paragraph,
\* an empty spacer, a zero-width span, and a block quote
ElementSet ==
    {[tag |-> "p", shown |-> TRUE, text |-> TRUE,
      left |-> 0, top |-> 0, width |-> 30, height |-> 30],
     [tag |-> "img", shown |-> TRUE, text |-> FALSE,
      left |-> 55, top |-> 55, width |-> 25, height |-> 25],
     [tag |-> "p", shown |-> FALSE, text |-> TRUE,
      left |-> 0, top |-> 0, width |-> 30, height |-> 30],
     [tag |-> "div", shown |-> TRUE, text |-> FALSE,
      left |-> 0, top |-> 0, width |-> 100, height |-> 90],
     [tag |-> "span", shown |-> TRUE, text |-> TRUE,
      left |-> 0, top |-> 0, width |-> 0, height |-> 20],
     [tag |-> "blockquote", shown |-> TRUE, text |-> TRUE,
      left |-> 0, top |-> 0, width |-> 30, height |-> 30]}

Documents == {d \in SUBSET ElementSet : Cardinality(d) <= MaxElements}

\* window.innerWidth, window.innerHeight
WindowSizes == {<<90, 90>>, <<100, 90>>}
\* window.scrollY of the host page
ScrollTops == {0, 45}

\* el.getBoundingClientRect()
BoundingClientRect(el, scroll) ==
    [left |-> el.left, right |-> el.left + el.width,
     top |-> el.top - scroll, bottom |-> el.top - scroll + el.height,
     width |-> el.width, height |-> el.height]

\* the .map callback of blockerRects returns the rect (not null)
IsBlocker(el) ==
    /\ el.tag \in BlockerTags
    /\ el.shown
    /\ el.width # 0 /\ el.height # 0
    /\ (el.text \/ el.tag = "img")

blockerRects(doc, scroll) ==
    {BoundingClientRect(el, scroll) : el \in {e \in doc : IsBlocker(e)}}

\* isBlocked: (x, y) lies in a rect grown by the padding, borders included
isBlocked(x, y, rects) ==
    \E rect \in rects :
        /\ x >= rect.left - padding
        /\ x <= rect.right + padding
        /\ y >= rect.top - padding
        /\ y <= rect.bottom + padding

\* how many multiples of the step lie in [0, length)
Steps(length) == (length + step - 1) \div step

\* updateStageGrid(width, height): the points pushed by the two loops, x outer
updateStageGrid(width, height, doc, scroll) ==
    LET ny == Steps(height)
        cells == [k \in 1..(Steps(width) * ny) |->
                     [x |-> step * ((k - 1) \div ny), y |-> step * ((k - 1) % ny)]]
        rects == blockerRects(doc, scroll)
    IN SelectSeq(cells, LAMBDA c : ~isBlocked(c.x, c.y, rects))


\* no overlay is mounted
OverlayAbsent ==
    /\ ovLife = "new"
    /\ ovActive = FALSE
    /\ ovScene = 0
    /\ windowSize = <<0, 0>>
    /\ canvasSize = <<0, 0>>
    /\ dom = {}
    /\ scrollTop = 0
    /\ gridCache = <<>>
    /\ stageGrid = <<>>
    /\ requestRef = FALSE
    /\ listening = FALSE
    /\ frameOutput = "none"
    /\ justRebuilt = FALSE
    /\ burst = 0

\* scene prop: 0 is null, 1 a storyboard scene
OverlayScenes == {0, 1}

InitOverlay ==
    /\ ovLife = "new"
    /\ ovActive \in BOOLEAN
    /\ ovScene \in OverlayScenes
    /\ windowSize \in WindowSizes
    /\ canvasSize = <<300, 150>>
    /\ dom \in Documents
    /\ scrollTop = 0
    /\ gridCache = <<>>
    /\ stageGrid = <<>>
    /\ requestRef = FALSE
    /\ listening = FALSE
    /\ frameOutput = "none"
    /\ justRebuilt = FALSE
    /\ burst = 0

\* resize(): the canvas takes the window's size and the grid is rebuilt and
\* shared with pathFinder
resize(size, doc, scroll) ==
    /\ canvasSize' = size
    /\ gridCache' = updateStageGrid(size[1], size[2], doc, scroll)
    /\ stageGrid' = gridCache'
    /\ justRebuilt' = TRUE

\* the effect body: listeners, resize(), first requestAnimationFrame
OverlayEffect ==
    /\ listening' = TRUE
    /\ resize(windowSize, dom, scrollTop)
    /\ requestRef' = TRUE

OverlayMount ==
    /\ ovLife = "new"
    /\ ovLife' = "mounted"
    /\ OverlayEffect
    /\ UNCHANGED <<ovActive, ovScene, windowSize, dom, scrollTop, frameOutput, burst>>
    /\ UNCHANGED exceptOverlay

\* a render with another isActive or scene: the cleanup cancels the pending
\* frame and removes the listeners, then the effect runs again
OverlaySetProps(active, scene) ==
    /\ ovLife = "mounted"
    /\ <<active, scene>> # <<ovActive, ovScene>>
    /\ ovActive' = active
    /\ ovScene' = scene
    /\ OverlayEffect
    /\ UNCHANGED <<ovLife, windowSize, dom, scrollTop, frameOutput, burst>>
    /\ UNCHANGED exceptOverlay

\* the window's resize event
WindowResize(size) ==
    /\ size # windowSize
    /\ burst < MaxBurst
    /\ windowSize' = size
    /\ burst' = IF listening THEN burst + 1 ELSE burst
    /\ IF listening
       THEN resize(size, dom, scrollTop)
       ELSE UNCHANGED <<canvasSize, gridCache, stageGrid>> /\ justRebuilt' = FALSE
    /\ UNCHANGED <<ovLife, ovActive, ovScene, dom, scrollTop, requestRef, listening,
                   frameOutput>>
    /\ UNCHANGED exceptOverlay

\* the window's scroll event
WindowScroll(y) ==
    /\ y # scrollTop
    /\ burst < MaxBurst
    /\ scrollTop' = y
    /\ burst' = IF listening THEN burst + 1 ELSE burst
    /\ IF listening
       THEN resize(windowSize, dom, y)
       ELSE UNCHANGED <<canvasSize, gridCache, stageGrid>> /\ justRebuilt' = FALSE
    /\ UNCHANGED <<ovLife, ovActive, ovScene, windowSize, dom, requestRef, listening,
                   frameOutput>>
    /\ UNCHANGED exceptOverlay

\* the page's content changes; no event reaches the overlay
DomChange(doc) ==
    /\ doc # dom
    /\ dom' = doc
    /\ justRebuilt' = FALSE
    /\ UNCHANGED <<ovLife, ovActive, ovScene, windowSize, canvasSize, scrollTop,
                   gridCache, stageGrid, requestRef, listening, frameOutput, burst>>
    /\ UNCHANGED exceptOverlay

\* a tick that measures the page again before it paints
OverlayAnimateRebuilding ==
    /\ requestRef
    /\ frameOutput' = IF ovActive /\ ovScene # 0 THEN "scene" ELSE "blank"
    /\ requestRef' = TRUE
    /\ resize(windowSize, dom, scrollTop)
    /\ UNCHANGED <<ovLife, ovActive, ovScene, windowSize, dom, scrollTop, listening, burst>>
    /\ UNCHANGED exceptOverlay

\* animate(time): clears the canvas, paints the scene if there is one, and
\* requests the next frame
OverlayAnimate ==
    /\ requestRef
    /\ frameOutput' = IF ovActive /\ ovScene # 0 THEN "scene" ELSE "blank"
    /\ requestRef' = TRUE
    /\ justRebuilt' = FALSE
    /\ UNCHANGED <<ovLife, ovActive, ovScene, windowSize, canvasSize, dom, scrollTop,
                   gridCache, stageGrid, listening, burst>>
    /\ UNCHANGED exceptOverlay

\* unmount: the cleanup cancels the pending frame and removes the listeners
OverlayUnmount ==
    /\ ovLife = "mounted"
    /\ ovLife' = "unmounted"
    /\ requestRef' = FALSE
    /\ listening' = FALSE
    /\ justRebuilt' = FALSE
    /\ UNCHANGED <<ovActive, ovScene, windowSize, canvasSize, dom, scrollTop,
                   gridCache, stageGrid, frameOutput, burst>>
    /\ UNCHANGED exceptOverlay

\* no resize or scroll event arrives for longer than any debounce interval
Quiet ==
    /\ burst > 0
    /\ burst' = 0
    /\ justRebuilt' = FALSE
    /\ UNCHANGED <<ovLife, ovActive, ovScene, windowSize, canvasSize, dom, scrollTop,
                   gridCache, stageGrid, requestRef, listening, frameOutput>>
    /\ UNCHANGED exceptOverlay

NextOverlay ==
    \/ OverlayMount
    \/ \E active \in BOOLEAN, scene \in OverlayScenes : OverlaySetProps(active, scene)
    \/ \E size \in WindowSizes : WindowResize(size)
    \/ \E y \in ScrollTops : WindowScroll(y)
    \/ \E doc \in Documents : DomChange(doc)
    \/ OverlayAnimate
    \/ OverlayUnmount
    \/ Quiet

\* the grid points of the viewport, as a set
GridPoints(size) ==
    {[x |-> x, y |-> y] : x \in {i \in 0..(size[1] - 1) : i % step = 0},
                          y \in {j \in 0..(size[2] - 1) : j % step = 0}}

\* a box grown by the padding holds the point
InPaddedBox(pt, el, scroll) ==
    /\ pt.x >= el.left - padding /\ pt.x <= el.left + el.width + padding
    /\ pt.y >= el.top - scroll - padding
    /\ pt.y <= el.top - scroll + el.height + padding

\* C16 as stated: after a rebuild the sample set holds exactly the grid
\* points inside none of the padded boxes of the visible, non-zero-size,
\* text-or-image-bearing elements, and nothing of an earlier rebuild.
C16_AsStated ==
    justRebuilt =>
        {stageGrid[k] : k \in 1..Len(stageGrid)} =
            {pt \in GridPoints(canvasSize) :
                \A el \in dom :
                    (el.shown /\ el.width # 0 /\ el.height # 0
                       /\ (el.text \/ el.tag = "img"))
                    => ~InPaddedBox(pt, el, scrollTop)}

\* C22: stage index rebuilds are debounced against resize/scroll bursts: a
\* burst of k resize or scroll events arriving within the debounce interval
\* causes at most one rebuild, not one rebuild per event.
C22_AsStated == burst <= 1

\* the step is the handler of a resize or scroll event of the window
ResizeOrScrollEvent ==
    \/ \E size \in WindowSizes : WindowResize(size)
    \/ \E y \in ScrollTops : WindowScroll(y)

\* the step runs the effect: at mount, or after a render with another
\* isActive or scene
EffectRuns ==
    \/ OverlayMount
    \/ \E active \in BOOLEAN, scene \in OverlayScenes : OverlaySetProps(active, scene)

\* C32 as stated: a tick never rebuilds or mutates the stage sample set: the
\* set of a mounted overlay changes only in response to a resize or scroll
\* event, and two ticks with no such event in between read the same set.
C32_AsStated ==
    [][ /\ OverlayAnimate => UNCHANGED <<gridCache, stageGrid>>
        /\ (ovLife = "mounted" /\ <<gridCache, stageGrid>>' # <<gridCache, stageGrid>>)
              => ResizeOrScrollEvent
      ]_vars

\* C32, amended: a tick never rebuilds or mutates the stage sample set: the
\* set changes only in response to a resize or scroll event or when the
\* effect runs (at mount and after a change of isActive or scene), and two
\* ticks with none of these in between read the same set.
C32_TicksLeaveTheStage ==
    [][ /\ OverlayAnimate => UNCHANGED <<gridCache, stageGrid, canvasSize>>
        /\ (<<gridCache, stageGrid>>' # <<gridCache, stageGrid>>)
              => (ResizeOrScrollEvent \/ EffectRuns)
      ]_vars

\* a tick painted the scene over a page that changed since the last rebuild:
\* the set it read is not what a rebuild would give now
C32_Witness ==
    /\ ovLife = "mounted"
    /\ frameOutput = "scene"
    /\ ~justRebuilt
    /\ requestRef
    /\ gridCache # updateStageGrid(windowSize[1], windowSize[2], dom, scrollTop)
    /\ stageGrid = gridCache

(***************************************************************************)
(* The easing lookup of CanvasRenderer's animate                           *)
(* (CanvasRenderer.tsx; part_012 is the build with the memory bank)        *)
(*                                                                         *)
(* Progress is carried in hundredths, eased progress in ten-thousandths.   *)
(***************************************************************************)
\* the own properties of the Easing object
EasingKeys == {"linear", "easeInOutQuad", "easeOutCubic", "backOut"}
\* what Easing inherits from Object.prototype: functions, and the accessor
\* __proto__, whose value is an object
InheritedFunctions == {"toString", "valueOf"}
InheritedObjects == {"__proto__"}

\* motion_ease and style_dna.motionEase as a storyboard may carry them; ""
\* stands for a missing (or empty) name
EaseNames == EasingKeys \cup InheritedFunctions \cup InheritedObjects \cup {"bogus", ""}
StyleEaseNames == {"", "easeOutCubic", "bogus"}
Progresses == {0, 25, 50, 100}

\* a || b on names
Or(a, b) == IF a # "" THEN a ELSE b

\* key in Easing: own and inherited properties
In(key) == key \in EasingKeys \cup InheritedFunctions \cup InheritedObjects

\* typeof Easing[key]
TypeOf(key) ==
    IF key \in EasingKeys \cup InheritedFunctions THEN "function"
    ELSE IF key \in InheritedObjects THEN "object"
    ELSE "undefined"

\* Easing.linear .. Easing.backOut, c1 = 1.70158 and c3 = c1 + 1
Ease(name, t) ==
    CASE name = "linear" -> t * 100
      [] name = "easeInOutQuad" ->
            IF t < 50 THEN 2 * t * t
            ELSE 10000 - ((200 - 2 * t) * (200 - 2 * t)) \div 2
      [] name = "easeOutCubic" -> 10000 - ((100 - t) * (100 - t) * (100 - t)) \div 100
      [] name = "backOut" ->
            LET cube == ((t - 100) * (t - 100) * (t - 100)) \div 100
            IN 10000 + 2 * cube + (70158 * cube) \div 100000
                     + (170158 * (t - 100) * (t - 100)) \div 100000

\* easeFn(progress): the looked-up value is called with no receiver.  An own
\* function returns a number, Object.prototype.toString the string
\* "[object Undefined]"; Object.prototype.valueOf throws on an undefined
\* receiver, and calling a value that is not a function throws.
CallEase(key, t) ==
    IF key \in EasingKeys
    THEN [easeFn |-> key, outcome |-> "number", easedProgress |-> Ease(key, t)]
    ELSE IF key = "toString"
    THEN [easeFn |-> key, outcome |-> "string", easedProgress |-> NaN]
    ELSE [easeFn |-> key, outcome |-> "TypeError", easedProgress |-> NaN]

\* the name of the value bound to easeFn
easeFn(build, motion_ease, motionEase) ==
    IF build = "CanvasRenderer"
    THEN LET rawEaseKey == Or(motion_ease, Or(motionEase, "linear"))
         IN IF In(rawEaseKey) /\ TypeOf(rawEaseKey) = "function"
            THEN rawEaseKey ELSE "linear"
    ELSE LET easeKey == Or(motion_ease, motionEase)
         IN IF TypeOf(easeKey) # "undefined" THEN easeKey ELSE "linear"

RendererBuilds == {"CanvasRenderer", "part_012"}

InitEasing ==
    /\ args \in [build : RendererBuilds, motion_ease : EaseNames,
                 motionEase : StyleEaseNames, progress : Progresses]
    /\ ret = <<>>

\* animate, up to easedProgress
AnimateEasing ==
    /\ ret = <<>>
    /\ ret' = <<CallEase(easeFn(args.build, args.motion_ease, args.motionEase),
                         args.progress)>>
    /\ UNCHANGED args
    /\ UNCHANGED exceptCall

\* the next frame of the animation
NextProgress(t) ==
    /\ ret # <<>>
    /\ t > args.progress
    /\ args' = [args EXCEPT !.progress = t]
    /\ ret' = <<>>
    /\ UNCHANGED exceptCall

NextEasing ==
    \/ AnimateEasing
    \/ \E t \in Progresses : NextProgress(t)

\* C17 as stated: every easing name outside linear, easeInOutQuad,
\* easeOutCubic, backOut, and a missing name, resolves to linear and the tick
\* does not throw.
C17_AsStated ==
    (ret # <<>> /\ Or(args.motion_ease, args.motionEase) \notin EasingKeys) =>
        /\ ret[1].easeFn = "linear"
        /\ ret[1].outcome # "TypeError"

(***************************************************************************)
(* CanvasRenderer: the animation of the current frame and the trail memory *)
(* (CanvasRenderer.tsx; part_012 is the build with the memory bank)        *)
(*                                                                         *)
(* Times are milliseconds, canvas positions pixels of the 2000 x 1200      *)
(* stage.                                                                  *)
(***************************************************************************)
MaxChanges == 2

\* the time between two animation frames
FrameInterval == 100

\* storyboard.frames of two documents: sequence, duration, the layout hint of
\* the one action beat, motion_ease.  Frames of different documents carry
\* the same sequence numbers.
FramesOf(doc) ==
    IF doc = 1
    THEN <<[sequence |-> 1, duration |-> 2700, hint |-> [x |-> 800, y |-> 500],
            motion_ease |-> "linear"],
           [sequence |-> 2, duration |-> 200, hint |-> [x |-> 200, y |-> 500],
            motion_ease |-> "bogus"]>>
    ELSE <<[sequence |-> 1, duration |-> 200, hint |-> [x |-> 500, y |-> 1000],
            motion_ease |-> ""]>>

CanvasDocs == {1, 2}
FrameIndices == {0, 1}
\* the sequence numbers, which name the trails: `beat-0-${sequence}`
Sequences == {1, 2}

\* historyCache[id].length > 20 (25 in the memory bank)
Capacity(build) == IF build = "CanvasRenderer" THEN 20 ELSE 25

\* the update that drops the newest entry of a full trail
updateTrajectoryDropNewest(build, history, pos) ==
    IF Len(history) + 1 > Capacity(build) THEN history ELSE Append(history, pos)

\* updateTrajectory: push, then shift once if the trail is over its capacity
updateTrajectory(build, history, pos) ==
    IF Len(history) + 1 > Capacity(build)
    THEN Tail(Append(history, pos))
    ELSE Append(history, pos)

\* frames[currentFrameIndex] exists
HasFrame(doc, index) == index + 1 <= Len(FramesOf(doc))

\* progress = Math.min(elapsed / duration, 1), in hundredths
Progress(elapsed, duration) == Min((elapsed * 100) \div duration, 100)

\* the position of the beat: from the stage center towards the hint.  The
\* frames carry no emotion_curve, so applyEmotionalJitter returns it as is.
BeatPosition(build, frame, progress) ==
    LET eased == CallEase(easeFn(build, frame.motion_ease, ""), progress).easedProgress
    IN [x |-> 1000 + ((2 * frame.hint.x - 1000) * eased) \div 10000,
        y |-> 600 + (((12 * frame.hint.y) \div 10 - 600) * eased) \div 10000]

\* no renderer is mounted
CanvasAbsent ==
    /\ crBuild = "CanvasRenderer"
    /\ crLife = "new"
    /\ crDoc = 1
    /\ currentFrameIndex = 0
    /\ animationFrameRef = FALSE
    /\ crElapsed = 0
    /\ historyCache = [s \in Sequences |-> <<>>]
    /\ arrivals = [s \in Sequences |-> <<>>]
    /\ sinceChange = 0
    /\ crChanges = 0

InitCanvas ==
    /\ crBuild \in RendererBuilds
    /\ crLife = "new"
    /\ crDoc \in CanvasDocs
    /\ currentFrameIndex \in FrameIndices
    /\ animationFrameRef = FALSE
    /\ crElapsed = 0
    /\ historyCache = [s \in Sequences |-> <<>>]
    /\ arrivals = [s \in Sequences |-> <<>>]
    /\ sinceChange = 0
    /\ crChanges = 0

\* the effect body: without a current frame it returns at once, else it
\* takes startTime and requests the first frame
CanvasEffect(doc, index) ==
    /\ animationFrameRef' = HasFrame(doc, index)
    /\ crElapsed' = 0

CanvasMount ==
    /\ crLife = "new"
    /\ crLife' = "mounted"
    /\ CanvasEffect(crDoc, currentFrameIndex)
    /\ UNCHANGED <<crBuild, crDoc, currentFrameIndex, historyCache, arrivals,
                   sinceChange, crChanges>>
    /\ UNCHANGED exceptCanvas

\* a render with another currentFrameIndex or other frames: the cleanup
\* cancels the pending frame and the effect runs again
CanvasSetProps(doc, index) ==
    /\ crLife = "mounted"
    /\ crChanges < MaxChanges
    /\ <<doc, index>> # <<crDoc, currentFrameIndex>>
    /\ crDoc' = doc
    /\ currentFrameIndex' = index
    /\ CanvasEffect(doc, index)
    /\ sinceChange' = 0
    /\ crChanges' = crChanges + 1
    /\ UNCHANGED <<crBuild, crLife, historyCache, arrivals>>
    /\ UNCHANGED exceptCanvas

\* animate(currentTime), run by the browser one frame interval later
CanvasAnimate ==
    /\ animationFrameRef
    /\ LET frame == FramesOf(crDoc)[currentFrameIndex + 1]
           elapsed == crElapsed + FrameInterval
           progress == Progress(elapsed, frame.duration)
           pos == BeatPosition(crBuild, frame, progress)
           id == frame.sequence
       IN /\ crElapsed' = elapsed
          /\ historyCache' = [historyCache EXCEPT
                                 ![id] = updateTrajectory(crBuild, @, pos)]
          /\ arrivals' = [arrivals EXCEPT ![id] = Append(@, pos)]
          /\ animationFrameRef' = (progress < 100)
    /\ sinceChange' = sinceChange + 1
    /\ UNCHANGED <<crBuild, crLife, crDoc, currentFrameIndex, crChanges>>
    /\ UNCHANGED exceptCanvas

\* unmount: the cleanup cancels the pending frame
CanvasUnmount ==
    /\ crLife = "mounted"
    /\ crLife' = "unmounted"
    /\ animationFrameRef' = FALSE
    /\ UNCHANGED <<crBuild, crDoc, currentFrameIndex, crElapsed, historyCache,
                   arrivals, sinceChange, crChanges>>
    /\ UNCHANGED exceptCanvas

NextCanvas ==
    \/ CanvasMount
    \/ \E doc \in CanvasDocs, index \in FrameIndices : CanvasSetProps(doc, index)
    \/ CanvasAnimate
    \/ CanvasUnmount

\* the last n entries of a sequence
LastN(s, n) == SubSeq(s, Len(s) - Min(n, Len(s)) + 1, Len(s))

\* C18: every trail holds at most its capacity (20; 25 in the memory bank)
\* and is exactly the most recent positions recorded for its entity, in
\* arrival order.
C18_TrailIsMostRecent ==
    \A s \in Sequences :
        /\ Len(historyCache[s]) <= Capacity(crBuild)
        /\ historyCache[s] = LastN(arrivals[s], Capacity(crBuild))

\* a position was evicted from the trail of the memory bank
C18_Witness ==
    /\ crBuild = "part_012"
    /\ \E s \in Sequences :
          /\ Len(arrivals[s]) > 25
          /\ Len(historyCache[s]) = 25
          /\ historyCache[s][1] = arrivals[s][Len(arrivals[s]) - 24]
          /\ historyCache[s][1] # arrivals[s][1]

\* C19 as stated: after the scene or the document changes, the trail of the
\* entity on stage holds only positions recorded since that change.
C19_AsStated ==
    (crLife = "mounted" /\ HasFrame(crDoc, currentFrameIndex)) =>
        Len(historyCache[FramesOf(crDoc)[currentFrameIndex + 1].sequence]) <= sinceChange

\* C20 as stated: every tick of a mounted renderer schedules the next tick.
C20_AsStated ==
    [][ (crLife = "mounted" /\ CanvasAnimate) => animationFrameRef' ]_vars

\* a scroll report reaches the reader and leaves the active scene as it is:
\* setScrollPercent with the fraction already held makes no render; with
\* another fraction the reader renders again and hands the renderer the same
\* frames and currentFrameIndex and a new `() => {}` as onFrameComplete, so
\* the cleanup cancels the pending frame and the effect runs again
ScrollReport(fractionChanged) ==
    /\ crLife = "mounted"
    /\ crChanges < MaxChanges
    /\ crChanges' = crChanges + 1
    /\ IF fractionChanged
       THEN CanvasEffect(crDoc, currentFrameIndex)
       ELSE UNCHANGED <<animationFrameRef, crElapsed>>
    /\ UNCHANGED <<crBuild, crLife, crDoc, currentFrameIndex, historyCache, arrivals,
                   sinceChange>>
    /\ UNCHANGED exceptCanvas

\* the renderer inside a reader that receives scroll reports
NextCanvasInReader ==
    \/ CanvasMount
    \/ \E doc \in CanvasDocs, index \in FrameIndices : CanvasSetProps(doc, index)
    \/ CanvasAnimate
    \/ CanvasUnmount
    \/ \E fractionChanged \in BOOLEAN : ScrollReport(fractionChanged)

\* C34 as stated: scroll reports are idempotent for the renderer: a scroll
\* report that does not change the resolved active scene leaves the running
\* scene animation untouched (its start time and progress continue and its
\* loop is not cancelled and restarted).
C34_AsStated ==
    [][ (\E fractionChanged \in BOOLEAN : ScrollReport(fractionChanged)) =>
            /\ crElapsed' = crElapsed
            /\ animationFrameRef' = animationFrameRef
      ]_vars

(***************************************************************************)
(* ImmersiveReader: which scene the renderers are handed                   *)
(***************************************************************************)
\* the two readers: ImmersiveReader.tsx mounts a SceneOrchestrator and keeps
\* what it reports; part_004 resolves the scene itself
ReaderBuilds == {"ImmersiveReader", "part_004"}

exceptReader == <<bridgeVars, callVars, overlayVars, canvasVars, pairVars, appVars, loopVars, pollVars>>
exceptApp == <<orchVars, bridgeVars, callVars, overlayVars, canvasVars, readerVars, pairVars, loopVars, pollVars>>
exceptLoop == <<orchVars, bridgeVars, callVars, overlayVars, canvasVars, readerVars, pairVars, appVars, pollVars>>
exceptPoll == <<orchVars, bridgeVars, callVars, overlayVars, canvasVars, readerVars, pairVars, appVars, loopVars>>

ReaderAbsent ==
    /\ rdBuild = "ImmersiveReader"
    /\ activeScene = NoScene

\* handleActiveSceneChange for every call the orchestrator made, in order
handleActiveSceneChange(emitted, scene) ==
    IF emitted = <<>> THEN scene ELSE emitted[Len(emitted)].scene

\* part_004's effect: the last waypoint in list order whose `percentage` (the
\* waypoint's start) is not above the fraction; nothing is set when there is none
narrativeSync(ws, percent, scene) ==
    LET reached == {i \in 1..Len(ws) : percent >= ws[i].scrollPercent}
    IN IF Len(ws) = 0 \/ reached = {} THEN scene
       ELSE ws[CHOOSE i \in reached : \A j \in reached : j <= i].scene

\* one render of the reader with a scroll fraction, effects included
ReaderRender(p) ==
    IF rdBuild = "ImmersiveReader"
    THEN LET r == EffectSettle(waypoints, p, activeWaypoint)
         IN /\ activeWaypoint' = r.active
            /\ events' = events \o r.emitted
            /\ orchMounted' = TRUE
            /\ activeScene' = handleActiveSceneChange(r.emitted, activeScene)
    ELSE /\ activeScene' = narrativeSync(waypoints, p, activeScene)
         /\ UNCHANGED <<activeWaypoint, events, orchMounted>>

InitReader ==
    /\ waypoints \in {WithScenes(ws) : ws \in SeqsUpTo(WindowSet, MaxWaypoints)}
    /\ scrollPercent = 0
    /\ activeWaypoint = <<>>
    /\ orchMounted = FALSE
    /\ events = <<>>
    /\ feed = <<>>
    /\ rdBuild \in ReaderBuilds
    /\ activeScene = NoScene

ReaderMounted == feed # <<>>

ReaderMount ==
    /\ ~ReaderMounted
    /\ ReaderRender(scrollPercent)
    /\ feed' = <<scrollPercent>>
    /\ UNCHANGED <<waypoints, scrollPercent, rdBuild>>
    /\ UNCHANGED exceptReader

\* onScrollChange: setScrollPercent(data.scrollPercent)
ReaderScroll(p) ==
    /\ ReaderMounted
    /\ Len(feed) < MaxUpdates
    /\ scrollPercent' = p
    /\ IF p # scrollPercent THEN ReaderRender(p)
       ELSE UNCHANGED <<activeWaypoint, events, orchMounted, activeScene>>
    /\ feed' = Append(feed, p)
    /\ UNCHANGED <<waypoints, rdBuild>>
    /\ UNCHANGED exceptReader

NextReader ==
    \/ ReaderMount
    \/ \E p \in Percents : ReaderScroll(p)

(***************************************************************************)
(* Properties of the reader                                                *)
(***************************************************************************)
\* C21: the renderer state follows the orchestrator: whenever the current
\* scroll fraction lies inside no waypoint's activation window the active
\* scene read by the renderer is null (Idle), and a scene is active
\* (Animating) only while the fraction is inside its window; the renderer is
\* back to Idle once the reader has scrolled out of every window.
C21_AsStated ==
    ReaderMounted =>
        /\ Containing(waypoints, scrollPercent) = {} => activeScene = NoScene
        /\ activeScene # NoScene => InWindow(waypoints[activeScene], scrollPercent)


(***************************************************************************)
(* The probing stage grid of part_009's OverlayMotion                      *)
(***************************************************************************)
\* what ctx.getImageData(x, y, 1, 1) does at one sample: it throws, or it
\* returns the pixel's <<r, g, b, a>>
ProbeOutcomes ==
    {[threw |-> TRUE, data |-> <<0, 0, 0, 0>>],
     [threw |-> FALSE, data |-> <<255, 255, 255, 255>>],
     [threw |-> FALSE, data |-> <<245, 250, 250, 255>>],
     [threw |-> FALSE, data |-> <<0, 0, 0, 0>>],
     [threw |-> FALSE, data |-> <<20, 20, 20, 255>>]}

\* canvas.width, canvas.height of the probed canvas
ProbeSizes == {<<0, 45>>, <<45, 45>>, <<45, 90>>, <<90, 90>>}

\* the samples visited by the two loops, x outer
ProbeCells(width, height) ==
    LET ny == Steps(height)
    IN [k \in 1..(Steps(width) * ny) |->
           [x |-> step * ((k - 1) \div ny), y |-> step * ((k - 1) % ny)]]

isWhite(pixel) == pixel[1] > 245 /\ pixel[2] > 245 /\ pixel[3] > 245
isTransparent(pixel) == pixel[4] < 10

\* the catch block dropping the sample instead of pushing it
updateStageGridDroppingUnread(width, height, pixels) ==
    LET cells == ProbeCells(width, height)
        kept == {k \in 1..Len(cells) :
                    /\ ~pixels[k].threw
                    /\ (isWhite(pixels[k].data) \/ isTransparent(pixels[k].data))}
    IN [kind |-> "grid",
        points |-> [j \in 1..Cardinality(kept) |->
                       cells[CHOOSE k \in kept :
                                Cardinality({i \in kept : i <= k}) = j]]]

\* updateStageGrid(ctx, width, height) of part_009: gridCache.current afterwards
updateStageGridProbing(width, height, pixels) ==
    LET cells == ProbeCells(width, height)
        kept == {k \in 1..Len(cells) :
                    \/ pixels[k].threw
                    \/ isWhite(pixels[k].data)
                    \/ isTransparent(pixels[k].data)}
    IN [kind |-> "grid",
        points |-> [j \in 1..Cardinality(kept) |->
                       cells[CHOOSE k \in kept :
                                Cardinality({i \in kept : i <= k}) = j]]]

ProbeCalls ==
    UNION {[fn : {"updateStageGrid"}, size : {size},
            pixels : [1..Len(ProbeCells(size[1], size[2])) -> ProbeOutcomes]]
           : size \in ProbeSizes}

InitProbe ==
    /\ args \in ProbeCalls
    /\ ret = <<>>

\* resize() of an active overlay
CallUpdateStageGrid ==
    /\ args.fn = "updateStageGrid"
    /\ ret = <<>>
    /\ ret' = <<updateStageGridProbing(args.size[1], args.size[2], args.pixels)>>
    /\ UNCHANGED args
    /\ UNCHANGED exceptCall

NextProbe == CallUpdateStageGrid

\* C23: when a sample's probe throws (the content cannot be inspected), the
\* rebuild still returns a grid and every sample that could not be inspected
\* is in it (classified free); inspected samples are free exactly when white
\* or transparent.
C23_UnreadSamplesAreFree ==
    (ret # <<>> /\ args.fn = "updateStageGrid") =>
        LET cells == ProbeCells(args.size[1], args.size[2])
            free == {ret[1].points[j] : j \in 1..Len(ret[1].points)}
        IN /\ ret[1].kind = "grid"
           /\ \A k \in 1..Len(cells) :
                 /\ args.pixels[k].threw => cells[k] \in free
                 /\ ~args.pixels[k].threw =>
                       (cells[k] \in free <=>
                           (isWhite(args.pixels[k].data)
                              \/ isTransparent(args.pixels[k].data)))

\* a rebuild in which one probe threw and another read a dark pixel
C23_Witness ==
    /\ ret # <<>>
    /\ args.fn = "updateStageGrid"
    /\ \E k, l \in 1..Len(args.pixels) :
          /\ args.pixels[k].threw
          /\ ~args.pixels[l].threw /\ args.pixels[l].data = <<20, 20, 20, 255>>
          /\ Len(ret[1].points) = Len(args.pixels) - 1


(***************************************************************************)
(* OverlayMotion animate: the looped progress and the path index           *)
(* (part_008)                                                              *)
(*                                                                         *)
(* Times are milliseconds.  Progress is kept as the remainder over the     *)
(* duration, so that no rounding enters.                                   *)
(***************************************************************************)
\* performance.now() when the effect ran
StartTimes == {100, 116}
\* the timestamp handed to animate: the frame's time, which the browser may
\* have taken before the effect called performance.now()
TickTimes == {100, 116, 132, 4100, 4116, 8116}
\* scene.duration
SceneDurations == {Undefined, 0, 1000, 4000}
\* pathPoints.length
PathLengths == {1, 2, 151}

\* scene.duration || 4000
DurationOrDefault(duration) ==
    IF duration = Undefined \/ duration = 0 THEN 4000 ELSE duration

\* a % d of JavaScript for d > 0: the result takes the sign of a
Remainder(a, d) == IF a >= 0 THEN a % d ELSE -((-a) % d)

\* Math.floor(progress * (pathPoints.length - 1)), progress = rem / duration
PathIndex(rem, duration, length) == (rem * (length - 1)) \div duration

\* one tick of animate with an active scene, up to the read of currentPoint:
\* pathPoints[pathIndex] is undefined outside the list, and reading its x throws
Tick(time, startTime, sceneDuration, length) ==
    LET elapsed == time - startTime
        duration == DurationOrDefault(sceneDuration)
        rem == Remainder(elapsed, duration)
        pathIndex == PathIndex(rem, duration, length)
    IN IF pathIndex \in 0..(length - 1)
       THEN [kind |-> "painted", duration |-> duration, rem |-> rem,
             pathIndex |-> pathIndex]
       ELSE [kind |-> "TypeError", duration |-> duration, rem |-> rem,
             pathIndex |-> pathIndex]

TickCalls ==
    [fn : {"animate"}, time : TickTimes, startTime : StartTimes,
     duration : SceneDurations, length : PathLengths]

InitTick ==
    /\ args \in TickCalls
    /\ ret = <<>>

CallAnimate ==
    /\ args.fn = "animate"
    /\ ret = <<>>
    /\ ret' = <<Tick(args.time, args.startTime, args.duration, args.length)>>
    /\ UNCHANGED args
    /\ UNCHANGED exceptCall

NextTick == CallAnimate

\* C26: on every tick with an active scene the progress used to place the
\* entities is (elapsed mod duration) / duration and lies in [0, 1), the
\* duration being 4000 ms when the scene's is missing or zero; this holds for
\* every timestamp, also one earlier than the loop start, so the path index is
\* a valid index of the path and the tick completes.
C26_AsStated ==
    (ret # <<>> /\ args.fn = "animate") =>
        LET duration == IF args.duration \in {Undefined, 0} THEN 4000 ELSE args.duration
        IN /\ ret[1].duration = duration
           /\ ret[1].rem = (args.time - args.startTime) % duration
           /\ ret[1].rem >= 0 /\ ret[1].rem < duration
           /\ ret[1].pathIndex \in 0..(args.length - 1)
           /\ ret[1].kind = "painted"


(***************************************************************************)
(* pathFinder.generatePathPoints and the cast of a scene                   *)
(* (utils/pathFinder.ts, part_016, lib/motionLogic.ts; part_008 animate)   *)
(***************************************************************************)
\* the three builds of generatePathPoints
GeneratorBuilds == {"pathFinder", "part_016", "motionLogic"}

Path(points) == [kind |-> "path", points |-> points]

\* i / steps, in hundredths
PathT(i, steps) == (i * 100) \div steps

\* Math.abs(p.x - prev.x) > 0.0001; a comparison with NaN is false
Differs(a, b) == ~isNaN(a) /\ ~isNaN(b) /\ a # b

\* path.filter((p, i) => i === 0 || p differs from path[i - 1])
withoutRepeats(path) ==
    LET kept == {i \in 1..Len(path) :
                    \/ i = 1
                    \/ Differs(path[i].x, path[i - 1].x)
                    \/ Differs(path[i].y, path[i - 1].y)}
    IN [j \in 1..Cardinality(kept) |->
           path[CHOOSE k \in kept : Cardinality({i \in kept : i <= k}) = j]]

\* generatePathPoints(hints, resolution, canvasWidth?, canvasHeight?)
generatePathPoints(build, hints, resolution, canvas, grid) ==
    IF Len(hints) = 0 THEN Path(<<>>)
    ELSE IF build = "pathFinder"
    THEN Path([i \in 1..(resolution + 1) |->
                 LET state == getPointOnPath(hints, PathT(i - 1, resolution))
                 IN Point(state.x, state.y)])
    ELSE IF build = "part_016"
    THEN Path([i \in 1..(resolution + 1) |->
                 LET state == getPointOnPathSnapping(hints, PathT(i - 1, resolution),
                                                     canvas, grid)
                 IN Point(state.x, state.y)])
    ELSE LET steps == resolution * 2
             spline == [i \in 1..(steps + 1) |-> getSplinePoint(hints, PathT(i - 1, steps))]
         IN IF \E i \in 1..(steps + 1) : spline[i] = TypeError THEN TypeError
            ELSE Path(withoutRepeats(
                   [i \in 1..(steps + 1) |->
                       IF CanvasGiven(canvas) /\ Len(grid) > 0
                       THEN snapToStage("motionLogic", spline[i].x, spline[i].y,
                                        canvas[1], canvas[2], grid)
                       ELSE spline[i]]))

\* generatePathPoints(hints, 150, canvas.width, canvas.height)
pathResolution == 150

\* scenes without hints or beats: the field is missing, or an empty list
BareScenes ==
    [hasHints : BOOLEAN, layout_hints : {<<>>}, hasBeats : BOOLEAN, action_beats : {<<>>},
     primary : {"undefined", "joy"}]

\* scene.layout_hints?.length ? scene.layout_hints : [{ x: 0.5, y: 0.5 }]
HintsOrCenter(scene) ==
    IF scene.hasHints /\ Len(scene.layout_hints) # 0 THEN scene.layout_hints
    ELSE <<[x |-> 500, y |-> 500]>>

\* beats.length > 0 ? beats : [{ entity: 'narrator', emotion: ... || 'neutral' }]
EntitiesOrNarrator(scene) ==
    IF scene.hasBeats /\ Len(scene.action_beats) > 0 THEN scene.action_beats
    ELSE <<[entity |-> "narrator",
            emotion |-> IF scene.primary = "undefined" THEN "neutral" ELSE scene.primary]>>

\* the cast part of one tick of animate: what is painted, or the TypeError
\* that escaped
paintCast(build, scene, rem, duration, canvas, grid) ==
    LET hints == HintsOrCenter(scene)
        pathPoints == generatePathPoints(build, hints, pathResolution, canvas, grid)
        entities == EntitiesOrNarrator(scene)
    IN IF pathPoints = TypeError THEN TypeError
       ELSE [kind |-> "frame",
             painted |->
               IF Len(pathPoints.points) = 0 THEN <<>>
               ELSE [k \in 1..Len(entities) |->
                       LET pathIndex == PathIndex(rem, duration, Len(pathPoints.points))
                           placed == EntityPlacement(build, pathPoints.points[pathIndex + 1],
                                                     k - 1, Len(entities), canvas, grid)
                       IN [entity |-> entities[k].entity, x |-> placed.x, y |-> placed.y]]]

CastTicks ==
    [fn : {"paintCast"}, build : Builds, scene : BareScenes, rem : {0, 1000, 3999},
     canvas : SnapCanvases, grid : StageGrids]

InitScene ==
    /\ args \in CastTicks
    /\ ret = <<>>

CallPaintCast ==
    /\ args.fn = "paintCast"
    /\ ret = <<>>
    /\ ret' = <<paintCast(args.build, args.scene, args.rem, DurationOrDefault(Undefined),
                          args.canvas, args.grid)>>
    /\ UNCHANGED args
    /\ UNCHANGED exceptCall

NextScene == CallPaintCast

\* C27: for a scene with no layout hints and no action beats the renderer
\* uses the single center hint (0.5, 0.5) and the single entity 'narrator',
\* and the tick completes without throwing, painting that entity at the
\* center of the canvas, or at the stage sample nearest to it when there are
\* stage samples.
C27_AsStated ==
    (ret # <<>> /\ args.fn = "paintCast") =>
        /\ ret[1].kind = "frame"
        /\ Len(ret[1].painted) = 1
        /\ ret[1].painted[1].entity = "narrator"
        /\ IF Len(args.grid) = 0
           THEN /\ ret[1].painted[1].x = (500 * args.canvas[1]) \div 1000
                /\ ret[1].painted[1].y = (500 * args.canvas[2]) \div 1000
           ELSE LET s == args.grid[FirstNearest(args.grid, 500, 500, args.canvas)]
                IN ret[1].painted[1].x = s.x /\ ret[1].painted[1].y = s.y


(***************************************************************************)
(* Sampling a path: generatePathPoints against the point function          *)
(***************************************************************************)

\* the resolutions asked for
Resolutions == {1, 2, 5}

\* the point of the path at t, as each build computes it
pointAt(build, hints, t, canvas, grid) ==
    IF build = "pathFinder" THEN getPointOnPath(hints, t)
    ELSE IF build = "part_016" THEN getPointOnPathSnapping(hints, t, canvas, grid)
    ELSE getSplinePoint(hints, t)

\* the calls under study
SampleCalls ==
    [fn : {"generatePathPoints"}, build : {"pathFinder"}, hints : SeqsUpTo(HintSet, MaxHints),
     t : {0}, resolution : Resolutions, canvas : {<<0, 0>>}, grid : {<<>>}]
    \cup
    [fn : {"generatePathPoints"}, build : Builds, hints : SeqsUpTo(HintSet, MaxHints),
     t : {0}, resolution : Resolutions, canvas : CanvasSizes, grid : StageGrids]
    \cup
    [fn : {"pointAt"}, build : {"pathFinder"}, hints : SeqsUpTo(HintSet, MaxHints),
     t : {0, 25, 50, 100}, resolution : {1}, canvas : {<<0, 0>>}, grid : {<<>>}]
    \cup
    [fn : {"pointAt"}, build : Builds, hints : SeqsUpTo(HintSet, MaxHints),
     t : {0, 25, 50, 100}, resolution : {1}, canvas : CanvasSizes, grid : StageGrids]

InitSample ==
    /\ args \in SampleCalls
    /\ ret = <<>>

CallGeneratePathPoints ==
    /\ args.fn = "generatePathPoints"
    /\ ret = <<>>
    /\ ret' = <<generatePathPoints(args.build, args.hints, args.resolution,
                                   args.canvas, args.grid)>>
    /\ UNCHANGED args
    /\ UNCHANGED exceptCall

CallPointAt ==
    /\ args.fn = "pointAt"
    /\ ret = <<>>
    /\ ret' = <<pointAt(args.build, args.hints, args.t, args.canvas, args.grid)>>
    /\ UNCHANGED args
    /\ UNCHANGED exceptCall

NextSample ==
    \/ CallGeneratePathPoints
    \/ CallPointAt

\* the same call on the hint list with the malformed entries removed
OnWellFormedHints ==
    IF args.fn = "pointAt"
    THEN pointAt(args.build, validPoints(args.hints), args.t, args.canvas, args.grid)
    ELSE generatePathPoints(args.build, validPoints(args.hints), args.resolution,
                            args.canvas, args.grid)

\* the coordinates a result carries
Coordinates(result) ==
    IF result.kind = "TypeError" THEN {}
    ELSE IF result.kind = "path"
    THEN {result.points[i].x : i \in 1..Len(result.points)}
         \cup {result.points[i].y : i \in 1..Len(result.points)}
    ELSE {result.x, result.y}

\* C29: hint entries whose x or y is not numeric are filtered out before any
\* computation: pointAt and generatePath on a hint list give the same result
\* as on the list with the malformed entries removed, and no returned
\* coordinate is NaN or infinite.
C29_AsStated ==
    ret # <<>> =>
        /\ ret[1] = OnWellFormedHints
        /\ \A c \in Coordinates(ret[1]) : ~isNaN(c)

\* C30: generatePath(hints, resolution) for a non-empty hint list returns, in
\* increasing order of t, the points of pointAt(hints, t) for `resolution`
\* evenly spaced t-values, so the length of the returned list is determined
\* by resolution alone.
C30_AsStated ==
    (ret # <<>> /\ args.fn = "generatePathPoints" /\ Len(args.hints) > 0) =>
        /\ ret[1].kind = "path"
        /\ Len(ret[1].points) = args.resolution
        /\ \A i \in 1..Len(ret[1].points) :
              LET t == IF args.resolution = 1 THEN 0
                       ELSE PathT(i - 1, args.resolution - 1)
                  at == pointAt(args.build, args.hints, t, args.canvas, args.grid)
              IN at.kind # "TypeError" /\ ret[1].points[i] = Point(at.x, at.y)


(***************************************************************************)
(* Two readers mounted side by side in one page                            *)
(* (historyCache of CanvasRenderer.tsx and pathFinder.stageGrid are        *)
(* module-level; gridCache is a ref of each OverlayMotion)                 *)
(***************************************************************************)
Instances == {1, 2}
\* how many frames each renderer paints
MaxTicks == 3

\* the pages the readers lie over: empty, or holding one element
PairPages == {d \in Documents : Cardinality(d) <= 1}
\* window.innerWidth, window.innerHeight of the page both readers are in
PairWindow == <<100, 90>>

NoDrawing == [trail |-> <<>>, snapped |-> 0]

\* no pair of readers is mounted
PairAbsent ==
    /\ mountOrder = <<>>
    /\ instTicks = [i \in Instances |-> 0]
    /\ instGridCache = [i \in Instances |-> <<>>]
    /\ instDrew = [i \in Instances |-> NoDrawing]
    /\ trailBank = [s \in Sequences |-> <<>>]
    /\ sharedStageGrid = [by |-> 0, grid |-> <<>>]
    /\ pageDom = {}

InitPair ==
    /\ mountOrder = <<>>
    /\ instTicks = [i \in Instances |-> 0]
    /\ instGridCache = [i \in Instances |-> <<>>]
    /\ instDrew = [i \in Instances |-> NoDrawing]
    /\ trailBank = [s \in Sequences |-> <<>>]
    /\ sharedStageGrid = [by |-> 0, grid |-> <<>>]
    /\ pageDom \in PairPages

InstMounted(i) == \E k \in 1..Len(mountOrder) : mountOrder[k] = i

\* resize() of the overlays in `order`, one after the other: each keeps the
\* rebuilt set in its own gridCache and hands it to pathFinder.setStageGrid
RECURSIVE RebuildAll(_, _, _, _)
RebuildAll(order, caches, shared, doc) ==
    IF order = <<>> THEN [caches |-> caches, shared |-> shared]
    ELSE LET built == updateStageGrid(PairWindow[1], PairWindow[2], doc, 0)
         IN RebuildAll(Tail(order), [caches EXCEPT ![Head(order)] = built],
                       [by |-> Head(order), grid |-> built], doc)

\* reader i is mounted: its overlay's effect registers the listeners and
\* calls resize(); its renderer's effect requests the first frame
InstMount(i) ==
    /\ ~InstMounted(i)
    /\ mountOrder' = Append(mountOrder, i)
    /\ LET r == RebuildAll(<<i>>, instGridCache, sharedStageGrid, pageDom)
       IN /\ instGridCache' = r.caches
          /\ sharedStageGrid' = r.shared
    /\ UNCHANGED <<instTicks, instDrew, trailBank, pageDom>>
    /\ UNCHANGED exceptPair

\* the page's content changes; no event reaches the overlays
PageChange(doc) ==
    /\ doc # pageDom
    /\ pageDom' = doc
    /\ UNCHANGED <<mountOrder, instTicks, instGridCache, instDrew, trailBank,
                   sharedStageGrid>>
    /\ UNCHANGED exceptPair

\* a resize or scroll event of the window: the listeners of all mounted
\* overlays run in the order of their registration
PageEvent ==
    /\ mountOrder # <<>>
    /\ LET r == RebuildAll(mountOrder, instGridCache, sharedStageGrid, pageDom)
       IN /\ instGridCache' = r.caches
          /\ sharedStageGrid' = r.shared
    /\ UNCHANGED <<mountOrder, instTicks, instDrew, trailBank, pageDom>>
    /\ UNCHANGED exceptPair

\* animate of reader i's CanvasRenderer: the beat's position is pushed on
\* historyCache['beat-0-' + sequence] and the trail kept there is drawn.
\* Reader i shows the first frame of document i; both have sequence 1.
RendererTick(i) ==
    /\ InstMounted(i)
    /\ instTicks[i] < MaxTicks
    /\ LET frame == FramesOf(i)[1]
           progress == Progress((instTicks[i] + 1) * FrameInterval, frame.duration)
           pos == BeatPosition("CanvasRenderer", frame, progress)
           id == frame.sequence
           trail == updateTrajectory("CanvasRenderer", trailBank[id],
                                     [by |-> i, x |-> pos.x, y |-> pos.y])
       IN /\ trailBank' = [trailBank EXCEPT ![id] = trail]
          /\ instDrew' = [instDrew EXCEPT ![i].trail = trail]
    /\ instTicks' = [instTicks EXCEPT ![i] = @ + 1]
    /\ UNCHANGED <<mountOrder, instGridCache, sharedStageGrid, pageDom>>
    /\ UNCHANGED exceptPair

\* animate of reader i's OverlayMotion: the dots are those of its own
\* gridCache, the cast is snapped to pathFinder.stageGrid
OverlayTick(i) ==
    /\ InstMounted(i)
    /\ instDrew[i].snapped # sharedStageGrid.by
    /\ instDrew' = [instDrew EXCEPT ![i].snapped = sharedStageGrid.by]
    /\ UNCHANGED <<mountOrder, instTicks, instGridCache, trailBank, sharedStageGrid,
                   pageDom>>
    /\ UNCHANGED exceptPair

NextPair ==
    \/ \E i \in Instances : InstMount(i)
    \/ \E doc \in PairPages : PageChange(doc)
    \/ PageEvent
    \/ \E i \in Instances : RendererTick(i)
    \/ \E i \in Instances : OverlayTick(i)

\* C33 as stated: two concurrently mounted readers do not cross-contaminate
\* state: the trail history and the stage sample set written by one are
\* never read or overwritten by the other, also when both render entities
\* with the same beat index and scene sequence number.
C33_AsStated ==
    \A i \in Instances :
        /\ \A k \in 1..Len(instDrew[i].trail) : instDrew[i].trail[k].by = i
        /\ instDrew[i].snapped \in {0, i}
        /\ (InstMounted(i) /\ instDrew[i].snapped = i) =>
               sharedStageGrid.grid = instGridCache[i]


(***************************************************************************)
(* App and DocumentInput: which storyboard the reader state holds          *)
(* (App.tsx passes DocumentInput onComplete only; the App of               *)
(* narrativeAnalyzer.ts also passes onStoryboardReady)                     *)
(***************************************************************************)
AppBuilds == {"App", "narrativeAnalyzer"}
MaxSubmissions == 3
\* the documents a user submits; the HTML shown is named by its document
AppDocs == {1, 2}

NoStoryboard == [of |-> 0, kind |-> "null"]
\* the storyboard fastapiClient.getStoryboard returns for a document
StoryboardOf(doc) == [of |-> doc, kind |-> "analysis"]
\* { scenes: [], entities: [], frames: [], emotion: ... }, pushed when the
\* backend failed for a document
EmptyStoryboard(doc) == [of |-> doc, kind |-> "empty"]

\* how the background processing of a submission ends: a storyboard is
\* fetched, the completed job has no article_id, or a request fails
AnalysisOutcomes == {"storyboard", "noArticle", "error"}

AppAbsent ==
    /\ appBuild = "App"
    /\ activeContent = <<>>
    /\ analyses = {}
    /\ submissions = 0

InitApp ==
    /\ appBuild \in AppBuilds
    /\ activeContent = <<>>
    /\ analyses = {}
    /\ submissions = 0

\* App.tsx: handleComplete(html, storyboard)
handleCompleteMerging(prev, html, storyboard) ==
    IF prev # <<>> /\ prev[1].html = html
    THEN <<[prev[1] EXCEPT !.storyboard = storyboard]>>
    ELSE <<[html |-> html, storyboard |-> storyboard]>>

\* narrativeAnalyzer.ts: handleComplete(html, storyboard)
handleComplete(prev, html, storyboard) == <<[html |-> html, storyboard |-> storyboard]>>

\* handleStoryboardUpdate(storyboard): if (!prev) return null
handleStoryboardUpdate(prev, storyboard) ==
    IF prev = <<>> THEN <<>>
    ELSE <<[prev[1] EXCEPT !.storyboard = storyboard]>>

\* DocumentInput.handleSubmit up to phase 2: the content is fetched and the
\* reader is opened with it; phase 3 starts in the background
Submit(doc) ==
    /\ activeContent = <<>>
    /\ submissions < MaxSubmissions
    /\ submissions' = submissions + 1
    /\ activeContent' = (IF appBuild = "App"
                         THEN handleCompleteMerging(activeContent, doc, NoStoryboard)
                         ELSE handleComplete(activeContent, doc, NoStoryboard))
    /\ analyses' = analyses \cup {[id |-> submissions + 1, doc |-> doc]}
    /\ UNCHANGED appBuild
    /\ UNCHANGED exceptApp

\* handleExit
Exit ==
    /\ activeContent # <<>>
    /\ activeContent' = <<>>
    /\ UNCHANGED <<appBuild, analyses, submissions>>
    /\ UNCHANGED exceptApp

\* phase 3 of handleSubmit settles.  In App.tsx onStoryboardReady is
\* undefined: the call throws, the catch block's call throws again, and the
\* outer catch only sets the status of the input form.
AnalysisSettles(job, outcome) ==
    /\ job \in analyses
    /\ analyses' = analyses \ {job}
    /\ activeContent' =
          (IF appBuild = "App" \/ outcome = "noArticle" THEN activeContent
           ELSE IF outcome = "storyboard"
           THEN handleStoryboardUpdate(activeContent, StoryboardOf(job.doc))
           ELSE handleStoryboardUpdate(activeContent, EmptyStoryboard(job.doc)))
    /\ UNCHANGED <<appBuild, submissions>>
    /\ UNCHANGED exceptApp

NextApp ==
    \/ \E doc \in AppDocs : Submit(doc)
    \/ Exit
    \/ \E job \in analyses, outcome \in AnalysisOutcomes : AnalysisSettles(job, outcome)

\* C36 as stated: the storyboard held in the reader state always belongs to
\* the document whose HTML is displayed: under any interleaving of submit,
\* exit and asynchronous analysis completion, a storyboard produced for an
\* earlier submission is never attached to a later document, and a
\* storyboard arriving after exit does not reopen the reader.
C36_AsStated ==
    [][ /\ (activeContent' # <<>> /\ activeContent'[1].storyboard # NoStoryboard)
              => activeContent'[1].storyboard.of = activeContent'[1].html
        /\ (activeContent = <<>>
              /\ \E job \in analyses, outcome \in AnalysisOutcomes :
                    AnalysisSettles(job, outcome))
              => activeContent' = <<>>
      ]_vars


(***************************************************************************)
(* The animation-frame callbacks of one renderer                           *)
(* (OverlayMotion of part_008, CanvasRenderer.tsx): the browser's list of  *)
(* requested callbacks, each belonging to the run of the effect that       *)
(* created its animate closure                                             *)
(***************************************************************************)
LoopKinds == {"OverlayMotion", "CanvasRenderer"}
\* how many animation frames are requested in all
MaxRequests == 5
\* how often the effect runs
MaxRuns == 3

LoopAbsent ==
    /\ loopKind = "OverlayMotion"
    /\ loopLife = "new"
    /\ loopGen = 0
    /\ loopRef = 0
    /\ loopPending = {}
    /\ loopRequests = 0
    /\ loopLastRan = 0

InitLoop ==
    /\ loopKind \in LoopKinds
    /\ loopLife = "new"
    /\ loopGen = 0
    /\ loopRef = 0
    /\ loopPending = {}
    /\ loopRequests = 0
    /\ loopLastRan = 0

\* a cleanup that leaves the requested callback in the browser's list
cleanupForgetting(ref, pending) == pending

\* the cleanup: if (requestRef.current) cancelAnimationFrame(requestRef.current);
\* cancelling an id that already ran changes nothing
cleanup(ref, pending) ==
    IF ref # 0 THEN {c \in pending : c.id # ref} ELSE pending

\* requestRef.current = requestAnimationFrame(animate), with the animate of
\* effect run `gen`
Request(gen, pending) ==
    /\ loopRequests < MaxRequests
    /\ loopRequests' = loopRequests + 1
    /\ loopRef' = loopRequests + 1
    /\ loopPending' = pending \cup {[id |-> loopRequests + 1, loop |-> gen]}

\* the effect body.  CanvasRenderer's returns before requesting anything
\* when there is no current frame.
LoopEffect(hasFrame, pending) ==
    /\ loopGen < MaxRuns
    /\ loopGen' = loopGen + 1
    /\ IF loopKind = "OverlayMotion" \/ hasFrame
       THEN Request(loopGen + 1, pending)
       ELSE /\ loopPending' = pending
            /\ UNCHANGED <<loopRef, loopRequests>>

LoopMount(hasFrame) ==
    /\ loopLife = "new"
    /\ loopLife' = "mounted"
    /\ LoopEffect(hasFrame, loopPending)
    /\ UNCHANGED <<loopKind, loopLastRan>>
    /\ UNCHANGED exceptLoop

\* a render with another scene, isActive, frame or callback: the cleanup of
\* the previous run of the effect, then the effect again
LoopPropsChange(hasFrame) ==
    /\ loopLife = "mounted"
    /\ LoopEffect(hasFrame, cleanup(loopRef, loopPending))
    /\ UNCHANGED <<loopKind, loopLife, loopLastRan>>
    /\ UNCHANGED exceptLoop

\* the browser runs a requested callback.  OverlayMotion's animate requests
\* the next frame every time; CanvasRenderer's does while progress < 1.
LoopFrame(cb, progressBelowOne) ==
    /\ cb \in loopPending
    /\ loopLastRan' = cb.loop
    /\ IF loopKind = "OverlayMotion" \/ progressBelowOne
       THEN Request(cb.loop, loopPending \ {cb})
       ELSE /\ loopPending' = loopPending \ {cb}
            /\ UNCHANGED <<loopRef, loopRequests>>
    /\ UNCHANGED <<loopKind, loopLife, loopGen>>
    /\ UNCHANGED exceptLoop

LoopUnmount ==
    /\ loopLife = "mounted"
    /\ loopLife' = "unmounted"
    /\ loopPending' = cleanup(loopRef, loopPending)
    /\ UNCHANGED <<loopKind, loopGen, loopRef, loopRequests, loopLastRan>>
    /\ UNCHANGED exceptLoop

NextLoop ==
    \/ \E hasFrame \in BOOLEAN : LoopMount(hasFrame)
    \/ \E hasFrame \in BOOLEAN : LoopPropsChange(hasFrame)
    \/ \E cb \in loopPending, progressBelowOne \in BOOLEAN : LoopFrame(cb, progressBelowOne)
    \/ LoopUnmount

\* C38: per renderer instance at most one animation-frame callback is
\* pending at any time: when the scene or the active flag changes, the
\* previous loop's pending callback is cancelled before the new loop starts,
\* and no callback of a cancelled loop runs afterwards: every pending
\* callback, and every callback that has run, belongs to an effect run that
\* was current then, and none is pending after unmount.
C38_OnePendingCallback ==
    /\ Cardinality(loopPending) <= 1
    /\ \A cb \in loopPending : cb.loop = loopGen /\ cb.id = loopRef
    /\ loopLife = "unmounted" => loopPending = {}
    /\ loopLastRan <= loopGen

\* after a change of props the second loop has run a frame and requested the
\* next one; the callback the first loop had requested is gone
C38_Witness ==
    /\ loopLife = "mounted"
    /\ loopGen = 2
    /\ loopLastRan = 2
    /\ loopRequests >= 4
    /\ Cardinality(loopPending) = 1


(***************************************************************************)
(* FastAPIClient.pollJobCompletion (fastapiClient.ts, part_014): one call, *)
(* the status requests it has in flight, the timers it has set and the     *)
(* calls it makes to resolve and reject                                    *)
(***************************************************************************)
PollBuilds == {"fastapiClient", "part_014"}
\* the limit on attempts: 60 by default in fastapiClient.ts, 40 in part_014
MaxAttempts == 4
\* what a status request comes back with: job.status, or "error" when
\* getJobStatus throws
StillRunning == {"queued", "processing"}
Responses == StillRunning \cup {"completed", "failed", "error"}

PollAbsent ==
    /\ pollBuild = "fastapiClient"
    /\ pollLife = "new"
    /\ maxAttempts = 0
    /\ attempts = 0
    /\ pollInFlight = 0
    /\ pollTimers = 0
    /\ pollRequests = 0
    /\ pollSeen = <<>>
    /\ pollSettles = <<>>

InitPoll ==
    /\ pollBuild \in PollBuilds
    /\ pollLife = "new"
    /\ maxAttempts = 0
    /\ attempts = 0
    /\ pollInFlight = 0
    /\ pollTimers = 0
    /\ pollRequests = 0
    /\ pollSeen = <<>>
    /\ pollSettles = <<>>

\* a limit that lets one more attempt through
timedOutLate(count, limit) == count > limit

\* attempts >= maxAttempts
timedOut(count, limit) == count >= limit

\* poll() up to its await: fastapiClient.ts counts the attempt before the
\* request, part_014 after the response
poll ==
    /\ attempts' = IF pollBuild = "fastapiClient" THEN attempts + 1 ELSE attempts
    /\ pollInFlight' = pollInFlight + 1
    /\ pollRequests' = pollRequests + 1

\* pollJobCompletion(jobId, onProgress, pollInterval, maxAttempts): let attempts
\* = 0, then poll().  part_014 has no such parameter, its limit is a const.
CallPollJobCompletion(limit) ==
    /\ pollLife = "new"
    /\ pollBuild = "part_014" => limit = MaxAttempts
    /\ pollLife' = "called"
    /\ maxAttempts' = limit
    /\ poll
    /\ UNCHANGED <<pollBuild, pollTimers, pollSeen, pollSettles>>
    /\ UNCHANGED exceptPoll

\* the rest of poll() after the await, for one response: a throw goes to the
\* catch and rejects; 'completed' resolves, 'failed' rejects, both return;
\* otherwise the limit is tested and either reject or setTimeout(poll)
Response(r) ==
    /\ pollInFlight > 0
    /\ pollInFlight' = pollInFlight - 1
    /\ pollSeen' = Append(pollSeen, r)
    /\ LET counted == IF pollBuild = "part_014" /\ r \in StillRunning
                      THEN attempts + 1 ELSE attempts
       IN  /\ attempts' = counted
           /\ IF r = "completed"
              THEN /\ pollSettles' = Append(pollSettles, "resolve")
                   /\ UNCHANGED pollTimers
              ELSE IF r \in {"failed", "error"} \/ timedOut(counted, maxAttempts)
              THEN /\ pollSettles' = Append(pollSettles, "reject")
                   /\ UNCHANGED pollTimers
              ELSE /\ pollTimers' = pollTimers + 1
                   /\ UNCHANGED pollSettles
    /\ UNCHANGED <<pollBuild, pollLife, maxAttempts, pollRequests>>
    /\ UNCHANGED exceptPoll

\* the timer set by setTimeout(poll, pollInterval) fires
PollTimer ==
    /\ pollTimers > 0
    /\ pollTimers' = pollTimers - 1
    /\ poll
    /\ UNCHANGED <<pollBuild, pollLife, maxAttempts, pollSeen, pollSettles>>
    /\ UNCHANGED exceptPoll

NextPoll ==
    \/ \E limit \in 1..MaxAttempts : CallPollJobCompletion(limit)
    \/ \E r \in Responses : Response(r)
    \/ PollTimer

InitOrchOnly == InitOrch /\ BridgeAbsent /\ CallAbsent /\ OverlayAbsent /\ CanvasAbsent /\ ReaderAbsent /\ PairAbsent /\ AppAbsent /\ LoopAbsent /\ PollAbsent

SpecOrch == InitOrchOnly /\ [][NextOrch]_vars

\* the bridge alone: no orchestrator is mounted
InitBridgeOnly == InitBridge /\ OrchAbsent /\ CallAbsent /\ OverlayAbsent /\ CanvasAbsent /\ ReaderAbsent /\ PairAbsent /\ AppAbsent /\ LoopAbsent /\ PollAbsent

SpecBridge == InitBridgeOnly /\ [][NextBridge]_vars

\* the injected reporter as a function of its window
InitReporterOnly == InitReporter /\ OrchAbsent /\ BridgeAbsent /\ OverlayAbsent /\ CanvasAbsent /\ ReaderAbsent /\ PairAbsent /\ AppAbsent /\ LoopAbsent /\ PollAbsent

SpecReporter == InitReporterOnly /\ [][NextReporter]_vars

\* pathFinder's path functions
InitPathOnly == InitPath /\ OrchAbsent /\ BridgeAbsent /\ OverlayAbsent /\ CanvasAbsent /\ ReaderAbsent /\ PairAbsent /\ AppAbsent /\ LoopAbsent /\ PollAbsent

SpecPath == InitPathOnly /\ [][NextPath]_vars

\* pathFinder.snapToStage
InitSnapOnly == InitSnap /\ OrchAbsent /\ BridgeAbsent /\ OverlayAbsent /\ CanvasAbsent /\ ReaderAbsent /\ PairAbsent /\ AppAbsent /\ LoopAbsent /\ PollAbsent

SpecSnap == InitSnapOnly /\ [][NextSnap]_vars

\* OverlayMotion over a page
InitOverlayOnly == InitOverlay /\ OrchAbsent /\ BridgeAbsent /\ CallAbsent /\ CanvasAbsent /\ ReaderAbsent /\ PairAbsent /\ AppAbsent /\ LoopAbsent /\ PollAbsent

SpecOverlay == InitOverlayOnly /\ [][NextOverlay]_vars

\* the easing lookup of animate
InitEasingOnly == InitEasing /\ OrchAbsent /\ BridgeAbsent /\ OverlayAbsent /\ CanvasAbsent /\ ReaderAbsent /\ PairAbsent /\ AppAbsent /\ LoopAbsent /\ PollAbsent

SpecEasing == InitEasingOnly /\ [][NextEasing]_vars

\* CanvasRenderer
InitCanvasOnly == InitCanvas /\ OrchAbsent /\ BridgeAbsent /\ CallAbsent /\ OverlayAbsent /\ ReaderAbsent /\ PairAbsent /\ AppAbsent /\ LoopAbsent /\ PollAbsent

SpecCanvas == InitCanvasOnly /\ [][NextCanvas]_vars

SpecCanvasInReader == InitCanvasOnly /\ [][NextCanvasInReader]_vars

\* the reader with its orchestrator
InitReaderOnly == InitReader /\ BridgeAbsent /\ CallAbsent /\ OverlayAbsent /\ CanvasAbsent /\ PairAbsent /\ AppAbsent /\ LoopAbsent /\ PollAbsent

SpecReader == InitReaderOnly /\ [][NextReader]_vars

\* the probing rebuild of part_009
InitProbeOnly == InitProbe /\ OrchAbsent /\ BridgeAbsent /\ OverlayAbsent /\ CanvasAbsent /\ ReaderAbsent /\ PairAbsent /\ AppAbsent /\ LoopAbsent /\ PollAbsent

SpecProbe == InitProbeOnly /\ [][NextProbe]_vars

\* the bridge from mount to unmount
SpecBridgeLife == InitBridgeOnly /\ [][NextBridgeLife]_vars

\* the bridge feeding the reader's scroll fraction
SpecSync == InitBridgeOnly /\ [][NextSync]_vars

\* the entities of one frame
InitCastOnly == InitCast /\ OrchAbsent /\ BridgeAbsent /\ OverlayAbsent /\ CanvasAbsent /\ ReaderAbsent /\ PairAbsent /\ AppAbsent /\ LoopAbsent /\ PollAbsent

SpecCast == InitCastOnly /\ [][NextCast]_vars

\* one tick of OverlayMotion's animate
InitTickOnly == InitTick /\ OrchAbsent /\ BridgeAbsent /\ OverlayAbsent /\ CanvasAbsent /\ ReaderAbsent /\ PairAbsent /\ AppAbsent /\ LoopAbsent /\ PollAbsent

SpecTick == InitTickOnly /\ [][NextTick]_vars

\* the cast of a scene without hints and beats
InitSceneOnly == InitScene /\ OrchAbsent /\ BridgeAbsent /\ OverlayAbsent /\ CanvasAbsent /\ ReaderAbsent /\ PairAbsent /\ AppAbsent /\ LoopAbsent /\ PollAbsent

SpecScene == InitSceneOnly /\ [][NextScene]_vars

InitSampleOnly == InitSample /\ OrchAbsent /\ BridgeAbsent /\ OverlayAbsent /\ CanvasAbsent /\ ReaderAbsent /\ PairAbsent /\ AppAbsent /\ LoopAbsent /\ PollAbsent

SpecSample == InitSampleOnly /\ [][NextSample]_vars

InitPairOnly == InitPair /\ OrchAbsent /\ BridgeAbsent /\ CallAbsent /\ OverlayAbsent /\ CanvasAbsent /\ ReaderAbsent /\ AppAbsent /\ LoopAbsent /\ PollAbsent

SpecPair == InitPairOnly /\ [][NextPair]_vars

InitAppOnly == InitApp /\ OrchAbsent /\ BridgeAbsent /\ CallAbsent /\ OverlayAbsent /\ CanvasAbsent /\ ReaderAbsent /\ PairAbsent /\ LoopAbsent /\ PollAbsent

SpecApp == InitAppOnly /\ [][NextApp]_vars

InitLoopOnly == InitLoop /\ OrchAbsent /\ BridgeAbsent /\ CallAbsent /\ OverlayAbsent /\ CanvasAbsent /\ ReaderAbsent /\ PairAbsent /\ AppAbsent /\ PollAbsent

SpecLoop == InitLoopOnly /\ [][NextLoop]_vars

InitPollOnly == InitPoll /\ OrchAbsent /\ BridgeAbsent /\ CallAbsent /\ OverlayAbsent /\ CanvasAbsent /\ ReaderAbsent /\ PairAbsent /\ AppAbsent /\ LoopAbsent

SpecPoll == InitPollOnly /\ [][NextPoll]_vars

====
